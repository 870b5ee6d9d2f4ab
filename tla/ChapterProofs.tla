--------------------------- MODULE ChapterProofs ---------------------------
(***************************************************************************)
(* Proofs about Chapter, for every number of requests and purges and for   *)
(* all values of the times.                                                *)
(*                                                                         *)
(* The argument adds up ages.  What the replica still shows has ended at   *)
(* most Lag ago (LagHolds); what a request has seen had ended at most Lag  *)
(* before it saw it, and the request is not older than its deadline allows *)
(* (SeenHold); what the edge keeps was brought by a request, and the entry *)
(* is not older than its time to live (EntryHolds).                        *)
(***************************************************************************)
EXTENDS Chapter, TLAPS

\* What is up has no age, and what the replica shows has ended lately.
LagHolds ==
    /\ \A p \in valid : since[p] = 0
    /\ \A p \in shown : since[p] <= Lag

\* What a request has found to be up, on behalf of a reader, and its text.
SeenHold ==
    \A r \in Requests : req[r] # None =>
        /\ ~req[r].staff =>
              /\ since["chapter"] <= Lag + RequestTime - req[r].left
              /\ req[r].at \in {"text", "answer"} =>
                    since["book"] <= Lag + RequestTime - req[r].left
        /\ req[r].at = "answer" /\ req[r].old =>
              since["text"] <= Lag + CacheBound + RequestTime - req[r].left

EntryHolds ==
    edge # None =>
        /\ since["chapter"] <= Bound("chapter") - edge.left
        /\ since["book"] <= Bound("book") - edge.left
        /\ edge.old => since["text"] <= Bound("text") - edge.left

IInv == TypeOK /\ LagHolds /\ SeenHold /\ EntryHolds

-----------------------------------------------------------------------------
LEMMA Bounds ==
    /\ Bound("chapter") = EdgeTTL + RequestTime + Lag
    /\ Bound("book") = EdgeTTL + RequestTime + Lag
    /\ Bound("text") = EdgeTTL + RequestTime + Lag + CacheBound
    /\ \A p \in Parts : Bound(p) \in Nat
  BY ChapterAssumption DEF Bound, Parts, Rows

LEMMA PartsAre == Rows = {"chapter", "book"} /\ Parts = {"chapter", "book", "text"}
  BY DEF Rows, Parts

\* A request that leaves, or goes on with what it saw.
LEMMA RequestStep ==
    ASSUME IInv, NEW r \in Requests, NEW new \in Request \cup {None},
           req' = [req EXCEPT ![r] = new],
           UNCHANGED <<valid, shown, since, purge>>,
           edge' \in EdgeEntry \cup {None}, EntryHolds',
           new # None => /\ ~new.staff =>
                              /\ since["chapter"] <= Lag + RequestTime - new.left
                              /\ new.at \in {"text", "answer"} =>
                                    since["book"] <= Lag + RequestTime - new.left
                         /\ new.at = "answer" /\ new.old =>
                              since["text"] <= Lag + CacheBound + RequestTime - new.left
    PROVE  IInv'
<1>t. TypeOK /\ LagHolds /\ SeenHold
  BY DEF IInv
<1>1. /\ req' \in [Requests -> Request \cup {None}] /\ req'[r] = new
      /\ \A q \in Requests \ {r} : req'[q] = req[q]
  BY <1>t DEF TypeOK
<1>2. TypeOK'
  BY <1>t, <1>1 DEF TypeOK
<1>3. LagHolds'
  BY <1>t DEF LagHolds
<1>4. SeenHold'
  <2> SUFFICES ASSUME NEW q \in Requests, req'[q] # None
               PROVE  /\ ~req'[q].staff =>
                            /\ since["chapter"] <= Lag + RequestTime - req'[q].left
                            /\ req'[q].at \in {"text", "answer"} =>
                                  since["book"] <= Lag + RequestTime - req'[q].left
                      /\ req'[q].at = "answer" /\ req'[q].old =>
                            since["text"] <= Lag + CacheBound + RequestTime - req'[q].left
    BY DEF SeenHold
  <2>1. CASE q = r
    BY <1>1, <2>1
  <2>2. CASE q # r
    BY <1>1, <1>t, <2>2 DEF SeenHold
  <2> QED
    BY <2>1, <2>2
<1> QED
  BY <1>2, <1>3, <1>4 DEF IInv

LEMMA ServeStep == ASSUME IInv, NEW r \in Requests, Serve(r) PROVE IInv'
<1> USE ChapterAssumption
<1>t. TypeOK /\ LagHolds /\ SeenHold /\ EntryHolds
  BY DEF IInv
<1>s. since["chapter"] \in Nat /\ since["book"] \in Nat /\ since["text"] \in Nat
  BY <1>t, PartsAre DEF TypeOK
<1>r. req[r] # None /\ req[r] \in Request /\ req[r].left \in 0..RequestTime
      /\ req[r].staff \in BOOLEAN /\ req[r].old \in BOOLEAN
  BY <1>t DEF Serve, ReadBook, Answer, Fails, LoadText, TypeOK, Request
<1>e. UNCHANGED <<valid, shown, since, purge>>
  BY DEF Serve, ReadBook, Answer, Fails, LoadText, database
<1>k. edge' = edge => edge' \in EdgeEntry \cup {None} /\ EntryHolds'
  BY <1>t, <1>e DEF TypeOK, EntryHolds
\* The request a step leaves behind.
<1>n. ASSUME NEW at \in {"book", "text", "answer"}, NEW old \in BOOLEAN
      PROVE  [at |-> at, staff |-> req[r].staff, old |-> old, left |-> req[r].left] \in Request
  BY <1>r DEF Request
<1>1. CASE ReadBook(r)
  <2> DEFINE new == [at |-> "text", staff |-> req[r].staff, old |-> FALSE, left |-> req[r].left]
  <2>1. req' = [req EXCEPT ![r] = new] /\ edge' = edge /\ new \in Request
    BY <1>1, <1>n DEF ReadBook, Go
  <2>2. ~req[r].staff => since["book"] <= Lag
    BY <1>1, <1>t DEF ReadBook, Admits, LagHolds
  <2>3. ~req[r].staff => since["chapter"] <= Lag + RequestTime - req[r].left
    BY <1>t, <1>r DEF SeenHold
  <2>4. ~req[r].staff => since["book"] <= Lag + RequestTime - req[r].left
    BY <2>2, <1>r, <1>s
  <2>5. new.at = "text" /\ new.staff = req[r].staff /\ new.left = req[r].left
    OBVIOUS
  <2> HIDE DEF new
  <2> QED
    BY <1>e, <1>k, <2>1, <2>3, <2>4, <2>5, RequestStep
<1>2. ASSUME NEW old \in BOOLEAN, LoadText(r, old) PROVE IInv'
  <2> DEFINE new == [at |-> "answer", staff |-> req[r].staff, old |-> old, left |-> req[r].left]
  <2>1. req' = [req EXCEPT ![r] = new] /\ edge' = edge /\ new \in Request /\ req[r].at = "text"
    BY <1>2, <1>n DEF LoadText, Go
  <2>2. ~req[r].staff => /\ since["chapter"] <= Lag + RequestTime - req[r].left
                         /\ since["book"] <= Lag + RequestTime - req[r].left
    BY <1>t, <1>r, <2>1 DEF SeenHold
  <2>3. old => since["text"] <= Lag + CacheBound
    BY <1>2, <1>t, <1>s DEF LoadText, LagHolds
  <2>4. old => since["text"] <= Lag + CacheBound + RequestTime - req[r].left
    BY <2>3, <1>r, <1>s
  <2>5. new.at = "answer" /\ new.staff = req[r].staff /\ new.old = old /\ new.left = req[r].left
    OBVIOUS
  <2> HIDE DEF new
  <2> QED
    BY <1>e, <1>k, <2>1, <2>2, <2>4, <2>5, RequestStep
<1>3. CASE Answer(r)
  <2>1. req' = [req EXCEPT ![r] = None] /\ req[r].at = "answer"
    BY <1>3 DEF Answer
  <2>2. CASE edge' = edge
    BY <1>e, <1>k, <2>1, <2>2, RequestStep
  <2>3. CASE edge' # edge
    <3>1. ~req[r].staff /\ edge' = [left |-> EdgeTTL, old |-> req[r].old]
      BY <1>3, <2>3 DEF Answer, NoStore
    <3>2. edge' \in EdgeEntry /\ edge'.left = EdgeTTL /\ edge'.old = req[r].old
      BY <3>1, <1>r DEF EdgeEntry
    <3>3. /\ since["chapter"] <= Lag + RequestTime - req[r].left
          /\ since["book"] <= Lag + RequestTime - req[r].left
          /\ req[r].old => since["text"] <= Lag + CacheBound + RequestTime - req[r].left
      BY <1>t, <1>r, <2>1, <3>1 DEF SeenHold
    <3>4. EntryHolds'
      BY <1>e, <1>r, <1>s, <3>2, <3>3, Bounds DEF EntryHolds
    <3> QED
      BY <1>e, <2>1, <3>2, <3>4, RequestStep
  <2> QED
    BY <2>2, <2>3
<1>4. CASE Fails(r)
  BY <1>4, <1>e, <1>k, RequestStep DEF Fails
<1> QED
  BY <1>1, <1>2, <1>3, <1>4 DEF Serve

LEMMA EnterStep ==
    ASSUME IInv, NEW r \in Requests, NEW staff \in BOOLEAN, GetChapterContent(r, staff)
    PROVE  IInv'
<1> USE ChapterAssumption
<1> DEFINE new == [at |-> IF staff THEN "text" ELSE "book", staff |-> staff, old |-> FALSE,
                   left |-> RequestTime]
<1>t. TypeOK /\ LagHolds /\ SeenHold /\ EntryHolds
  BY DEF IInv
<1>1. req' = [req EXCEPT ![r] = new] /\ UNCHANGED <<valid, shown, since, purge, edge>>
  BY DEF GetChapterContent, database
<1>2. new \in Request /\ new.staff = staff /\ new.left = RequestTime /\ ~new.old
      /\ (~staff => new.at = "book")
  BY DEF Request
<1>3. ~staff => since["chapter"] <= Lag
  BY <1>t DEF GetChapterContent, Admits, LagHolds
<1>4. edge' \in EdgeEntry \cup {None} /\ EntryHolds'
  BY <1>1, <1>t DEF TypeOK, EntryHolds
<1>5. since["chapter"] \in Nat
  BY <1>t, PartsAre DEF TypeOK
<1>6. ~staff => since["chapter"] <= Lag + RequestTime - RequestTime
  BY <1>3, <1>5
<1> HIDE DEF new
<1> QED
  BY <1>1, <1>2, <1>4, <1>6, RequestStep

\* Something ends, ends again, or comes back.
LEMMA SetStep ==
    ASSUME IInv, NEW p \in Parts, NEW up \in BOOLEAN, Set(p, up),
           UNCHANGED <<shown, edge, req>>, purge' \in [Purgers -> 0..2]
    PROVE  IInv'
<1> USE ChapterAssumption
<1>t. TypeOK /\ LagHolds /\ SeenHold /\ EntryHolds
  BY DEF IInv
<1>1. /\ valid' \subseteq Parts /\ since' \in [Parts -> Nat]
      /\ \A q \in Parts : since'[q] = 0 \/ since'[q] = since[q]
      /\ \A q \in valid' : q = p \/ q \in valid
      /\ p \in valid' => since'[p] = 0
  BY <1>t DEF Set, TypeOK
<1>2. \A q \in Parts : since[q] \in Nat /\ since'[q] \in Nat /\ since'[q] <= since[q]
  BY <1>1, <1>t DEF TypeOK
<1>3. TypeOK'
  BY <1>t, <1>1, <1>2, Bounds DEF TypeOK
<1>4. LagHolds'
  BY <1>t, <1>1, <1>2, PartsAre DEF LagHolds, TypeOK
<1>l. \A r \in Requests : req[r] # None => req[r].left \in Int
  BY <1>t DEF TypeOK, Request
<1>5. SeenHold'
  <2> SUFFICES ASSUME NEW r \in Requests, req[r] # None
               PROVE  /\ ~req[r].staff =>
                            /\ since'["chapter"] <= Lag + RequestTime - req[r].left
                            /\ req[r].at \in {"text", "answer"} =>
                                  since'["book"] <= Lag + RequestTime - req[r].left
                      /\ req[r].at = "answer" /\ req[r].old =>
                            since'["text"] <= Lag + CacheBound + RequestTime - req[r].left
    BY DEF SeenHold
  <2>1. /\ ~req[r].staff =>
              /\ since["chapter"] <= Lag + RequestTime - req[r].left
              /\ req[r].at \in {"text", "answer"} =>
                    since["book"] <= Lag + RequestTime - req[r].left
        /\ req[r].at = "answer" /\ req[r].old =>
              since["text"] <= Lag + CacheBound + RequestTime - req[r].left
    BY <1>t DEF SeenHold
  <2>2. /\ since["chapter"] \in Nat /\ since["book"] \in Nat /\ since["text"] \in Nat
        /\ since'["chapter"] \in Nat /\ since'["book"] \in Nat /\ since'["text"] \in Nat
        /\ since'["chapter"] <= since["chapter"] /\ since'["book"] <= since["book"]
        /\ since'["text"] <= since["text"] /\ req[r].left \in Int
    BY <1>2, <1>l, PartsAre
  <2> QED
    BY <2>1, <2>2
<1>6. EntryHolds'
  <2> SUFFICES ASSUME edge # None
               PROVE  /\ since'["chapter"] <= Bound("chapter") - edge.left
                      /\ since'["book"] <= Bound("book") - edge.left
                      /\ edge.old => since'["text"] <= Bound("text") - edge.left
    BY DEF EntryHolds
  <2>1. edge.left \in Int
    BY <1>t DEF TypeOK, EdgeEntry
  <2>2. /\ since["chapter"] \in Nat /\ since["book"] \in Nat /\ since["text"] \in Nat
        /\ since'["chapter"] \in Nat /\ since'["book"] \in Nat /\ since'["text"] \in Nat
        /\ since'["chapter"] <= since["chapter"] /\ since'["book"] <= since["book"]
        /\ since'["text"] <= since["text"]
        /\ Bound("chapter") \in Nat /\ Bound("book") \in Nat /\ Bound("text") \in Nat
    BY <1>2, Bounds, PartsAre
  <2> QED
    BY <1>t, <2>1, <2>2 DEF EntryHolds
<1> QED
  BY <1>3, <1>4, <1>5, <1>6 DEF IInv

LEMMA TickStep == ASSUME IInv, Tick PROVE IInv'
<1> USE ChapterAssumption
<1>t. TypeOK /\ LagHolds /\ SeenHold /\ EntryHolds
  BY DEF IInv
<1>1. /\ since' \in [Parts -> Nat]
      /\ \A p \in Parts : /\ since[p] \in Nat /\ since'[p] \in Nat
                          /\ since'[p] <= since[p] + 1 /\ since'[p] <= Bound(p) + 1
                          /\ p \in valid => since'[p] = since[p]
  BY <1>t, Bounds DEF Tick, TypeOK
<1>2. UNCHANGED <<valid, shown, purge>>
  BY DEF Tick
<1>3. ASSUME NEW r \in Requests
      PROVE  \/ req'[r] = None
             \/ /\ req[r] # None /\ req'[r] \in Request
                /\ req[r].left \in Nat /\ req'[r].left = req[r].left - 1
                /\ req'[r].at = req[r].at /\ req'[r].staff = req[r].staff /\ req'[r].old = req[r].old
  <2>1. CASE req[r] = None
    BY <2>1 DEF Tick
  <2>2. CASE req[r] # None
    <3>1. req[r] \in Request /\ req[r].left \in 0..RequestTime /\ req[r].left > 0
      BY <2>2, <1>t DEF Tick, TypeOK, Request
    <3>2. req'[r] = [at |-> req[r].at, staff |-> req[r].staff, old |-> req[r].old,
                     left |-> req[r].left - 1]
      BY <2>2 DEF Tick
    <3>3. req[r].left - 1 \in 0..RequestTime
      BY <3>1
    <3>4. req'[r] \in Request
      BY <3>1, <3>2, <3>3 DEF Request
    <3> QED
      BY <2>2, <3>1, <3>2, <3>4
  <2> QED
    BY <2>1, <2>2
<1>4. req' \in [Requests -> Request \cup {None}]
  <2>1. req' = [r \in Requests |-> req'[r]]
    BY DEF Tick
  <2> QED
    BY <1>3, <2>1
<1>5. \/ edge' = None
      \/ /\ edge # None /\ edge' \in EdgeEntry
         /\ edge.left \in Nat /\ edge'.left = edge.left - 1 /\ edge'.old = edge.old
  BY <1>t DEF Tick, TypeOK, EdgeEntry
<1>6. TypeOK'
  BY <1>t, <1>1, <1>2, <1>4, <1>5 DEF TypeOK
<1>7. LagHolds'
  <2>1. \A p \in valid : since'[p] = 0
    BY <1>1, <1>t DEF LagHolds, TypeOK
  <2>2. ASSUME NEW p \in shown PROVE since'[p] <= Lag
    <3>1. CASE p \in valid
      BY <2>1, <3>1
    <3>2. CASE p \notin valid
      <4>1. since[p] < Lag /\ p \in Parts
        BY <3>2, <1>t, PartsAre DEF Tick, TypeOK
      <4> QED
        BY <4>1, <1>1
    <3> QED
      BY <3>1, <3>2
  <2> QED
    BY <1>2, <2>1, <2>2 DEF LagHolds
<1>s. /\ since["chapter"] \in Nat /\ since["book"] \in Nat /\ since["text"] \in Nat
      /\ since'["chapter"] \in Nat /\ since'["book"] \in Nat /\ since'["text"] \in Nat
      /\ since'["chapter"] <= since["chapter"] + 1 /\ since'["book"] <= since["book"] + 1
      /\ since'["text"] <= since["text"] + 1
  BY <1>1, PartsAre
<1>8. SeenHold'
  <2> SUFFICES ASSUME NEW r \in Requests, req'[r] # None
               PROVE  /\ ~req'[r].staff =>
                            /\ since'["chapter"] <= Lag + RequestTime - req'[r].left
                            /\ req'[r].at \in {"text", "answer"} =>
                                  since'["book"] <= Lag + RequestTime - req'[r].left
                      /\ req'[r].at = "answer" /\ req'[r].old =>
                            since'["text"] <= Lag + CacheBound + RequestTime - req'[r].left
    BY DEF SeenHold
  <2>1. /\ req[r] # None
        /\ req[r].left \in Nat /\ req'[r].left = req[r].left - 1
        /\ req'[r].at = req[r].at /\ req'[r].staff = req[r].staff /\ req'[r].old = req[r].old
    BY <1>3
  <2>2. /\ ~req[r].staff =>
              /\ since["chapter"] <= Lag + RequestTime - req[r].left
              /\ req[r].at \in {"text", "answer"} =>
                    since["book"] <= Lag + RequestTime - req[r].left
        /\ req[r].at = "answer" /\ req[r].old =>
              since["text"] <= Lag + CacheBound + RequestTime - req[r].left
    BY <1>t, <2>1 DEF SeenHold
  <2> QED
    BY <1>s, <2>1, <2>2
<1>9. EntryHolds'
  <2> SUFFICES ASSUME edge' # None
               PROVE  /\ since'["chapter"] <= Bound("chapter") - edge'.left
                      /\ since'["book"] <= Bound("book") - edge'.left
                      /\ edge'.old => since'["text"] <= Bound("text") - edge'.left
    BY DEF EntryHolds
  <2>1. /\ since["chapter"] <= Bound("chapter") - edge.left
        /\ since["book"] <= Bound("book") - edge.left
        /\ edge.old => since["text"] <= Bound("text") - edge.left
    BY <1>5, <1>t DEF EntryHolds
  <2>2. Bound("chapter") \in Nat /\ Bound("book") \in Nat /\ Bound("text") \in Nat
    BY Bounds, PartsAre
  <2> QED
    BY <1>s, <1>5, <2>1, <2>2
<1> QED
  BY <1>6, <1>7, <1>8, <1>9 DEF IInv

LEMMA Inductive == IInv /\ [Next]_vars => IInv'
<1> SUFFICES ASSUME IInv, [Next]_vars PROVE IInv'
  OBVIOUS
<1>t. TypeOK /\ LagHolds /\ SeenHold /\ EntryHolds
  BY DEF IInv
<1>1. ASSUME NEW p \in Rows, Replicate(p) PROVE IInv'
  <2>1. UNCHANGED <<valid, since, edge, req, purge>> /\ shown' \subseteq shown \cup (Rows \cap valid)
    BY <1>1 DEF Replicate
  <2>2. TypeOK'
    BY <1>t, <2>1 DEF TypeOK
  <2>3. LagHolds'
    BY <1>t, <2>1, ChapterAssumption DEF LagHolds, TypeOK
  <2>4. SeenHold' /\ EntryHolds'
    BY <1>t, <2>1 DEF SeenHold, EntryHolds
  <2> QED
    BY <2>2, <2>3, <2>4 DEF IInv
<1>2. ASSUME NEW up \in BOOLEAN, SetChapterStatus(up) PROVE IInv'
  <2>1. purge' \in [Purgers -> 0..2]
    BY <1>2, <1>t DEF SetChapterStatus, TypeOK, Attempts
  <2> QED
    BY <1>2, <2>1, SetStep, PartsAre DEF SetChapterStatus
<1>3. ASSUME NEW up \in BOOLEAN, SetBookStatus(up) PROVE IInv'
  BY <1>3, <1>t, SetStep, PartsAre DEF SetBookStatus, TypeOK
<1>4. CASE TranslateBookChapters
  BY <1>4, <1>t, SetStep, PartsAre DEF TranslateBookChapters, TypeOK
<1>5. ASSUME NEW g \in Purgers, PurgeOne(g) \/ PurgeFails(g) PROVE IInv'
  <2>1. UNCHANGED <<valid, shown, since, req>> /\ (edge' = edge \/ edge' = None)
    BY <1>5 DEF PurgeOne, PurgeFails, database
  <2>2. purge' \in [Purgers -> 0..2]
    BY <1>5, <1>t DEF PurgeOne, PurgeFails, Attempt, TypeOK
  <2> QED
    BY <1>t, <2>1, <2>2 DEF IInv, TypeOK, LagHolds, SeenHold, EntryHolds
<1>6. CASE UNCHANGED vars
  BY <1>6, <1>t DEF vars, IInv, TypeOK, LagHolds, SeenHold, EntryHolds
<1> QED
  BY <1>1, <1>2, <1>3, <1>4, <1>5, <1>6, TickStep, ServeStep, EnterStep DEF Next

LEMMA Invariance == Spec => []IInv
<1>1. Init => IInv
  <2> SUFFICES ASSUME Init PROVE IInv
    OBVIOUS
  <2>1. TypeOK
    BY Bounds DEF Init, TypeOK
  <2>2. LagHolds /\ SeenHold /\ EntryHolds
    BY ChapterAssumption, PartsAre DEF Init, LagHolds, SeenHold, EntryHolds
  <2> QED
    BY <2>1, <2>2 DEF IInv
<1> QED
  BY <1>1, Inductive, PTL DEF Spec

-----------------------------------------------------------------------------
\* Type correctness of the chapter's path to its readers.
THEOREM TypeCorrect == Spec => []TypeOK
<1>1. IInv => TypeOK
  BY DEF IInv
<1> QED
  BY Invariance, <1>1, PTL

\* What GetChapterContent let the edge keep is shown no longer than s-maxage, a
\* request and the replica's lag (and the cache's bound, for a text) after it
\* was taken down or replaced, although every purge may be lost.
THEOREM EdgeForgetsInTime == Spec => []EdgeIsBounded
<1>1. IInv => EdgeIsBounded
  <2> SUFFICES ASSUME IInv, edge # None
               PROVE  /\ since["chapter"] <= Bound("chapter")
                      /\ since["book"] <= Bound("book")
                      /\ edge.old => since["text"] <= Bound("text")
    BY DEF EdgeIsBounded
  <2>1. edge.left \in Nat
    BY DEF IInv, TypeOK, EdgeEntry
  <2>2. /\ since["chapter"] \in Nat /\ since["book"] \in Nat /\ since["text"] \in Nat
        /\ Bound("chapter") \in Nat /\ Bound("book") \in Nat /\ Bound("text") \in Nat
    BY Bounds, PartsAre DEF IInv, TypeOK
  <2> QED
    BY <2>1, <2>2 DEF IInv, EntryHolds
<1> QED
  BY Invariance, <1>1, PTL

\* chapterAccess and no-store close the door: once the last request that saw
\* the chapter or the book up is gone, nothing brings it back to the edge
\* before it is up again.
THEOREM EdgeIsNotRefilled == Spec => NotRefilled
<1> DEFINE Closed == \A p \in Rows :
             Shut(p) /\ p \notin valid' => Shut(p)' /\ (edge = None => edge' = None)
<1>1. IInv /\ [Next]_vars => Closed
  <2> SUFFICES ASSUME IInv, [Next]_vars, NEW p \in Rows, Shut(p), p \notin valid'
               PROVE  Shut(p)' /\ (edge = None => edge' = None)
    OBVIOUS
  <2>t. TypeOK
    BY DEF IInv
  <2>s. /\ p \notin valid /\ p \notin shown
        /\ \A r \in Requests : req[r] # None /\ ~req[r].staff => p = "book" /\ req[r].at = "book"
    BY DEF Shut
  <2>q. ASSUME UNCHANGED <<shown, req>> PROVE Shut(p)'
    BY <2>q, <2>s DEF Shut
  <2>1. CASE Tick
    <3>1. \A r \in Requests : req'[r] # None =>
            /\ req[r] # None
            /\ req'[r].staff = req[r].staff /\ req'[r].at = req[r].at
      BY <2>1 DEF Tick
    <3>2. shown' = shown /\ (edge = None => edge' = None)
      BY <2>1 DEF Tick
    <3> QED
      BY <2>s, <3>1, <3>2 DEF Shut
  <2>2. ASSUME NEW q \in Rows, Replicate(q) PROVE Shut(p)' /\ (edge = None => edge' = None)
    BY <2>2, <2>s DEF Replicate, Shut
  <2>3. ASSUME NEW r \in Requests, NEW new,
               req' = [req EXCEPT ![r] = new], UNCHANGED shown,
               new # None /\ ~new.staff => p = "book" /\ new.at = "book"
        PROVE  Shut(p)'
    BY <2>3, <2>s, <2>t DEF Shut, TypeOK
  <2>4. ASSUME NEW r \in Requests, NEW staff \in BOOLEAN, GetChapterContent(r, staff)
        PROVE  Shut(p)' /\ (edge = None => edge' = None)
    <3> DEFINE new == [at |-> IF staff THEN "text" ELSE "book", staff |-> staff, old |-> FALSE,
                       left |-> RequestTime]
    <3>1. req' = [req EXCEPT ![r] = new] /\ UNCHANGED <<shown, edge>>
      BY <2>4 DEF GetChapterContent, database
    <3>2. ~staff => p = "book"
      BY <2>4, <2>s, PartsAre DEF GetChapterContent, Admits
    <3>3. new.staff = staff /\ (~staff => new.at = "book")
      OBVIOUS
    <3> HIDE DEF new
    <3> QED
      BY <2>3, <3>1, <3>2, <3>3
  <2>5. ASSUME NEW r \in Requests, ReadBook(r) PROVE Shut(p)' /\ (edge = None => edge' = None)
    <3> DEFINE new == [at |-> "text", staff |-> req[r].staff, old |-> FALSE, left |-> req[r].left]
    <3>1. req' = [req EXCEPT ![r] = new] /\ UNCHANGED <<shown, edge>>
      BY <2>5 DEF ReadBook, Go, database
    <3>2. req[r].staff
      BY <2>5, <2>s DEF ReadBook, Admits
    <3>3. new.staff = req[r].staff
      OBVIOUS
    <3> HIDE DEF new
    <3> QED
      BY <2>3, <3>1, <3>2, <3>3
  <2>6. ASSUME NEW r \in Requests, NEW old \in BOOLEAN, LoadText(r, old)
        PROVE  Shut(p)' /\ (edge = None => edge' = None)
    <3> DEFINE new == [at |-> "answer", staff |-> req[r].staff, old |-> old, left |-> req[r].left]
    <3>1. req' = [req EXCEPT ![r] = new] /\ UNCHANGED <<shown, edge>>
      BY <2>6 DEF LoadText, Go, database
    <3>2. req[r].staff
      BY <2>6, <2>s DEF LoadText
    <3>3. new.staff = req[r].staff
      OBVIOUS
    <3> HIDE DEF new
    <3> QED
      BY <2>3, <3>1, <3>2, <3>3
  <2>7. ASSUME NEW r \in Requests, Answer(r) PROVE Shut(p)' /\ (edge = None => edge' = None)
    <3>1. req[r].staff
      BY <2>7, <2>s DEF Answer
    <3>2. edge' = edge
      BY <2>7, <3>1 DEF Answer, NoStore
    <3> QED
      BY <2>3, <2>7, <3>2 DEF Answer, database
  <2>8. ASSUME NEW r \in Requests, Fails(r) PROVE Shut(p)' /\ (edge = None => edge' = None)
    BY <2>3, <2>8 DEF Fails, database
  <2>9. CASE (\E up \in BOOLEAN : SetChapterStatus(up) \/ SetBookStatus(up)) \/ TranslateBookChapters
             \/ UNCHANGED vars
    BY <2>9, <2>q DEF SetChapterStatus, SetBookStatus, TranslateBookChapters, vars
  <2>10. ASSUME NEW g \in Purgers, PurgeOne(g) \/ PurgeFails(g)
         PROVE  Shut(p)' /\ (edge = None => edge' = None)
    BY <2>10, <2>q DEF PurgeOne, PurgeFails, database
  <2> QED
    BY <2>1, <2>2, <2>4, <2>5, <2>6, <2>7, <2>8, <2>9, <2>10 DEF Next, Serve
<1>2. IInv /\ [Next]_vars => [Closed]_vars
  BY <1>1
<1> QED
  BY Invariance, <1>2, PTL DEF Spec, NotRefilled

=============================================================================
