------------------------------ MODULE Chapter ------------------------------
(***************************************************************************)
(* The text of a chapter in one language on its way to the readers: the    *)
(* database, the origin's GetChapterContent and the CDN's edge, which      *)
(* keeps what it was allowed to for an hour; biz/chapter.go, biz/cdn.go,   *)
(* cdn/.                                                                   *)
(*                                                                         *)
(* The origin reads the chapter's row, then its book's, from a replica     *)
(* if there is one, and takes the text from the cache.  Of module Cache    *)
(* only the promise is used: a text is at most CacheBound older than what  *)
(* a load would read (CacheProofs.StalenessIsBounded).  An administrator   *)
(* who takes the chapter down sends a purge that may get lost; who takes   *)
(* the book down, or has the text translated anew, sends none.             *)
(***************************************************************************)
EXTENDS Integers

CONSTANTS
    Requests,    \* concurrent runs of GetChapterContent
    Purgers,     \* purge goroutines
    Vip,         \* is_vip of the chapter: nothing writes the column
    Lag,         \* what the replica is behind at most
    CacheBound,  \* what the cache is behind the replica at most
    RequestTime, \* the deadline of a request
    EdgeTTL,     \* s-maxage
    None

\* "text": chapter and book allow it; "answer": on its way, old or not.
Request == [at: {"book", "text", "answer"}, staff: BOOLEAN, old: BOOLEAN, left: 0..RequestTime]
EdgeEntry == [left: 1..EdgeTTL, old: BOOLEAN]

ASSUME ChapterAssumption ==
    /\ Vip \in BOOLEAN
    /\ Lag \in Nat /\ CacheBound \in Nat /\ RequestTime \in Nat
    /\ EdgeTTL \in Nat \ {0}
    /\ None \notin EdgeEntry \cup Request

\* What may end: the chapter's being up, the book's being up, and the text
\* that was written first, when another replaces it.
Rows == {"chapter", "book"}
Parts == Rows \cup {"text"}

\* How long the edge may go on showing what has ended.
Bound(p) == EdgeTTL + RequestTime + Lag + (IF p = "text" THEN CacheBound ELSE 0)

VARIABLES
    valid,  \* what has not ended, on the primary ...
    shown,  \* ... and on the replica; the cache reads the text
    since,  \* how long ago it ended, counted to Bound + 1
    edge,   \* the edge's entry
    req,    \* the requests at the origin
    purge   \* attempts left of the purges that are under way

vars == <<valid, shown, since, edge, req, purge>>
database == <<valid, shown, since>>

TypeOK ==
    /\ valid \subseteq Parts /\ shown \subseteq Rows
    /\ since \in [Parts -> Nat]
    /\ \A p \in Parts : since[p] <= Bound(p) + 1
    /\ edge \in EdgeEntry \cup {None}
    /\ req \in [Requests -> Request \cup {None}]
    /\ purge \in [Purgers -> 0..2]

\* CreateChapter: row and text in one transaction.
Init ==
    /\ valid = Parts
    /\ shown \in SUBSET Rows
    /\ since = [p \in Parts |-> 0]
    /\ edge = None
    /\ req = [r \in Requests |-> None]
    /\ purge = [p \in Purgers |-> 0]

-----------------------------------------------------------------------------
(* Time, and the replica. *)

Tick ==
    /\ \A p \in shown \ valid : since[p] < Lag
    /\ \A r \in Requests : req[r] # None => req[r].left > 0
    /\ since' = [p \in Parts |->
         IF p \notin valid /\ since[p] <= Bound(p) THEN since[p] + 1 ELSE since[p]]
    /\ edge' = IF edge = None \/ edge.left = 1
               THEN None ELSE [left |-> edge.left - 1, old |-> edge.old]
    /\ req' = [r \in Requests |-> IF req[r] = None THEN None ELSE
         [at |-> req[r].at, staff |-> req[r].staff, old |-> req[r].old, left |-> req[r].left - 1]]
    /\ UNCHANGED <<valid, shown, purge>>

Replicate(p) ==
    /\ p \in shown <=> p \notin valid
    /\ shown' = IF p \in valid THEN shown \cup {p} ELSE shown \ {p}
    /\ UNCHANGED <<valid, since, edge, req, purge>>

-----------------------------------------------------------------------------
(* GetChapterContent. *)

Go(r, at, staff, old) ==
    req' = [req EXCEPT ![r] = [at |-> at, staff |-> staff, old |-> old, left |-> req[r].left]]

\* Mutant: the chapter's status is not looked at.
AdmitsAny(p, staff) == staff \/ p = "chapter" \/ p \in shown

\* chapterAccess: staff may read everything.
Admits(p, staff) == staff \/ p \in shown

\* The chapter's row.  A VIP chapter is for members: IsVipActive.
GetChapterContent(r, staff) ==
    /\ req[r] = None
    /\ Admits("chapter", staff)
    /\ req' = [req EXCEPT ![r] = [at |-> IF staff THEN "text" ELSE "book",
                                  staff |-> staff, old |-> FALSE, left |-> RequestTime]]
    /\ UNCHANGED <<database, edge, purge>>

ReadBook(r) ==
    /\ req[r] # None /\ req[r].at = "book"
    /\ Admits("book", req[r].staff)
    /\ Go(r, "text", req[r].staff, FALSE)
    /\ UNCHANGED <<database, edge, purge>>

\* GetOrLoad.
LoadText(r, old) ==
    /\ req[r] # None /\ req[r].at = "text"
    /\ IF old THEN "text" \in valid \/ since["text"] <= Lag + CacheBound ELSE "text" \notin valid
    /\ Go(r, "answer", req[r].staff, old)
    /\ UNCHANGED <<database, edge, purge>>

\* Mutant: an administrator's answer is like everybody's.
NoStoreVip(staff) == Vip

\* Cache-Control: no-store.
NoStore(staff) == staff \/ Vip

Answer(r) ==
    /\ req[r] # None /\ req[r].at = "answer"
    /\ edge' = IF NoStore(req[r].staff) THEN edge ELSE [left |-> EdgeTTL, old |-> req[r].old]
    /\ req' = [req EXCEPT ![r] = None]
    /\ UNCHANGED <<database, purge>>

\* The access is denied, a read fails, the answer is lost.
Fails(r) ==
    /\ req[r] # None
    /\ req' = [req EXCEPT ![r] = None]
    /\ UNCHANGED <<database, edge, purge>>

-----------------------------------------------------------------------------
(* What ends, and the purges. *)

Set(p, up) ==
    /\ valid' = IF up THEN valid \cup {p} ELSE valid \ {p}
    /\ since' = [since EXCEPT ![p] = IF up THEN 0 ELSE IF p \in valid THEN 0 ELSE since[p]]

\* Mutant: another attempt.
ThreeAttempts == 3

Attempts == 2

\* PurgeChaptersAsync of the languages that a replica knows.
SetChapterStatus(up) ==
    /\ Set("chapter", up)
    /\ \/ UNCHANGED purge
       \/ \E g \in Purgers : purge[g] = 0 /\ purge' = [purge EXCEPT ![g] = Attempts]
    /\ UNCHANGED <<shown, edge, req>>

SetBookStatus(up) ==
    /\ Set("book", up)
    /\ UNCHANGED <<shown, edge, req, purge>>

\* The cache may keep the old text: the context of a long translation has
\* expired when it comes to DelPattern.
TranslateBookChapters ==
    /\ Set("text", FALSE)
    /\ UNCHANGED <<shown, edge, req, purge>>

\* purgeOne: one attempt, and another if the answer says so.
Attempt(g) ==
    /\ purge[g] > 0
    /\ purge' = [purge EXCEPT ![g] = 0] \/ purge' = [purge EXCEPT ![g] = purge[g] - 1]

PurgeOne(g) ==
    /\ Attempt(g)
    /\ edge' = None
    /\ UNCHANGED <<database, req>>

PurgeFails(g) ==
    /\ Attempt(g)
    /\ UNCHANGED <<database, edge, req>>

-----------------------------------------------------------------------------
Serve(r) == ReadBook(r) \/ Answer(r) \/ Fails(r) \/ \E old \in BOOLEAN : LoadText(r, old)

Next ==
    \/ Tick
    \/ \E p \in Rows : Replicate(p)
    \/ \E r \in Requests : Serve(r) \/ \E staff \in BOOLEAN : GetChapterContent(r, staff)
    \/ \E up \in BOOLEAN : SetChapterStatus(up) \/ SetBookStatus(up)
    \/ TranslateBookChapters
    \/ \E g \in Purgers : PurgeOne(g) \/ PurgeFails(g)

\* Time passes, requests end by their deadline, the replica works.
Fairness ==
    /\ WF_vars(Tick)
    /\ \A p \in Rows : WF_vars(Replicate(p))
    /\ \A r \in Requests : WF_vars(Serve(r))

Spec == Init /\ [][Next]_vars /\ Fairness

-----------------------------------------------------------------------------
(* What must hold. *)

\* What the edge shows has ended at most EdgeTTL, a request and a lag ago: a
\* chapter or a book that was taken down, although no purge is sent for the
\* book and that of the chapter gets lost or is overtaken by a request; and a
\* text that was replaced, for which the cache's bound comes on top.
EdgeIsBounded ==
    edge # None =>
        /\ since["chapter"] <= Bound("chapter")
        /\ since["book"] <= Bound("book")
        /\ edge.old => since["text"] <= Bound("text")

\* p is down, the replica knows, and no request is under way that read before.
Shut(p) ==
    /\ p \notin valid \cup shown
    /\ \A r \in Requests : req[r] # None /\ ~req[r].staff => p = "book" /\ req[r].at = "book"

\* This lasts until p is up again, and what has gone from the edge meanwhile,
\* by a purge or by its age, does not come back.
NotRefilled ==
    [][\A p \in Rows :
          Shut(p) /\ p \notin valid' => Shut(p)' /\ (edge = None => edge' = None)]_vars

\* The edge forgets for good what stays down.
ForgottenAtLast ==
    \A p \in Rows : <>[](p \notin valid) => <>[](edge = None)

=============================================================================
