------------------------------- MODULE Reader -------------------------------
(***************************************************************************)
(* The reader's page of the mobile client and the reading progress the     *)
(* backend keeps of one user and book; reader_page.dart, api_client.dart,  *)
(* GetProgress and UpdateProgress of biz/chapter.go.                       *)
(*                                                                         *)
(* The page sends its calls without waiting for earlier ones, and nothing  *)
(* orders them on their way.  A place is a page number (pageMode 1); what  *)
(* is said of it holds of a scroll offset as well, which is 0 until the    *)
(* text has been drawn.  The user is logged in.  _checkProgress only       *)
(* offers one more way to _goto and is not modelled.                       *)
(***************************************************************************)
EXTENDS Integers

CONSTANTS
    Chapters,
    Vip,      \* the chapters for members
    LastPage, \* of every chapter
    Calls,    \* the calls that can be under way at once
    None

Places == 0..LastPage

\* A load at its two awaits, and the calls of the progress: a GET that the
\* backend has yet to answer, its answer, a PUT that it has yet to handle.
Call ==
    [kind: {"member", "get"}]
    \cup [kind: {"text"}, chapter: Chapters]
    \cup [kind: {"put", "got"}, chapter: Chapters, place: Places]

VARIABLES
    chapter, \* _chapter, None while the page is not open
    text,    \* the chapter whose text is _content
    covered, \* _vipLocked or _error: a button stands in the text's place
    place,   \* _pageIndex
    call,    \* the calls under way
    row,     \* the rows of novel_reading_progress: the place in a chapter
    recent,  \* the chapters whose rows share the latest updated_at
    due      \* history: where the user had left the chapter he came back to

vars == <<chapter, text, covered, place, call, row, recent, due>>
page == <<chapter, text, covered, place>>
progress == <<row, recent>>

TypeOK ==
    /\ chapter \in Chapters \cup {None} /\ text \in Chapters \cup {None}
    /\ covered \in BOOLEAN
    /\ place \in Places
    /\ call \in [Calls -> Call \cup {None}]
    /\ row \in [Chapters -> Places \cup {None}]
    /\ recent \subseteq Chapters
    /\ due \in Places \cup {None}

Init ==
    /\ chapter = None /\ text = None /\ covered = FALSE /\ place = 0
    /\ call = [k \in Calls |-> None]
    /\ row = [c \in Chapters |-> None] /\ recent = {}
    /\ due = None

Is(k, kind) == call[k] # None /\ call[k].kind = kind
Free(k) == call[k] = None

Put(c, p) == [kind |-> "put", chapter |-> c, place |-> p]

-----------------------------------------------------------------------------
(* What the user does. *)

\* _load up to its first await.  The text is asked for at once unless the
\* chapter is for members.
Load(k, c) ==
    /\ Free(k)
    /\ text' = None /\ covered' = FALSE /\ place' = 0
    /\ call' = [call EXCEPT ![k] = IF c \in Vip THEN [kind |-> "member"]
                                   ELSE [kind |-> "text", chapter |-> c]]

\* The user comes back to a chapter when it is the one he read last and no
\* call of an earlier page is under way.
Open(k, c) ==
    /\ chapter = None
    /\ chapter' = c
    /\ Load(k, c)
    /\ due' = IF recent = {c} /\ \A l \in Calls : Free(l) THEN row[c] ELSE None
    /\ UNCHANGED progress

Goto(k, c) ==
    /\ chapter \notin {None, c}
    /\ chapter' = c
    /\ Load(k, c)
    /\ due' = None
    /\ UNCHANGED progress

\* The button: try again, or become a member and try again.
Retry(k) ==
    /\ chapter # None /\ covered
    /\ Load(k, chapter)
    /\ UNCHANGED <<chapter, progress, due>>

\* onPageChanged.
TurnPage(k, p) ==
    /\ text # None /\ ~covered
    /\ p # place
    /\ Free(k)
    /\ place' = p
    /\ call' = [call EXCEPT ![k] = Put(chapter, p)]
    /\ due' = None
    /\ UNCHANGED <<chapter, text, covered, progress>>

\* dispose.  Answers find the page unmounted; a PUT goes its way.
Close ==
    /\ chapter # None
    /\ chapter' = None /\ text' = None /\ covered' = FALSE /\ place' = 0
    /\ call' = [k \in Calls |-> IF Is(k, "put") THEN call[k] ELSE None]
    /\ due' = None
    /\ UNCHANGED progress

-----------------------------------------------------------------------------
(* What comes back. *)

\* _isVipActive.  The text that is asked for is the one of the chapter that
\* is open by now.
MemberAnswer(k, active) ==
    /\ Is(k, "member")
    /\ call' = [call EXCEPT ![k] = IF active THEN [kind |-> "text", chapter |-> chapter] ELSE None]
    /\ covered' = (covered \/ ~active)
    /\ UNCHANGED <<chapter, text, place, progress, due>>

\* getChapterContentCached, from the backend or the file.  The place is
\* saved, then the one to go back to is asked for; j and k carry the two
\* calls.
TextAnswer(j, k) ==
    /\ Is(k, "text") /\ Free(j)
    /\ text' = call[k].chapter
    /\ call' = [call EXCEPT ![j] = Put(chapter, place), ![k] = [kind |-> "get"]]
    /\ UNCHANGED <<chapter, covered, place, progress, due>>

TextFails(k) ==
    /\ Is(k, "text")
    /\ covered' = TRUE
    /\ call' = [call EXCEPT ![k] = None]
    /\ due' = None
    /\ UNCHANGED <<chapter, text, place, progress>>

\* The rest of _restorePosition, and the save that the jump entails when
\* it turns the page.
Restore(k) ==
    /\ Is(k, "got")
    /\ LET there == call[k].chapter = chapter
           jumps == there /\ text # None /\ ~covered /\ place # call[k].place
       IN  /\ place' = IF there THEN call[k].place ELSE place
           /\ call' = [call EXCEPT ![k] = IF jumps THEN Put(chapter, call[k].place) ELSE None]
    /\ UNCHANGED <<chapter, text, covered, progress, due>>

-----------------------------------------------------------------------------
(* The backend. *)

\* First, by updated_at, which counts seconds.
GetProgress(k, c) ==
    /\ Is(k, "get") /\ c \in recent
    /\ call' = [call EXCEPT ![k] = [kind |-> "got", chapter |-> c, place |-> row[c]]]
    /\ UNCHANGED <<page, progress, due>>

\* The row is updated or inserted; sameSecond as the one before.
UpdateProgress(k, sameSecond) ==
    /\ Is(k, "put")
    /\ row' = [row EXCEPT ![call[k].chapter] = call[k].place]
    /\ recent' = {call[k].chapter} \cup (IF sameSecond THEN recent ELSE {})
    /\ call' = [call EXCEPT ![k] = None]
    /\ UNCHANGED <<page, due>>

\* A call that is lost, finds no row, or loses against another insert of
\* the same row: null, or silence.
ProgressFails(k) ==
    /\ Is(k, "get") \/ Is(k, "put")
    /\ call' = [call EXCEPT ![k] = None]
    /\ due' = None
    /\ UNCHANGED <<page, progress>>

Next ==
    \/ \E k \in Calls, c \in Chapters : Open(k, c) \/ Goto(k, c) \/ GetProgress(k, c)
    \/ \E k \in Calls : Retry(k) \/ TextFails(k) \/ Restore(k) \/ ProgressFails(k)
    \/ \E k \in Calls, p \in Places : TurnPage(k, p)
    \/ Close
    \/ \E k \in Calls, b \in BOOLEAN : MemberAnswer(k, b) \/ UpdateProgress(k, b)
    \/ \E j, k \in Calls : TextAnswer(j, k)

Spec == Init /\ [][Next]_vars

-----------------------------------------------------------------------------
\* "恢复同章节的精确位置" (reader_page.dart:126): when every call has been
\* answered and none has failed, a user who came back to the chapter he read
\* last, and has not turned a page since, is at the place where he left it.
Resumes ==
    (text # None /\ ~covered /\ due # None /\ \A k \in Calls : Free(k)) => place = due

=============================================================================
