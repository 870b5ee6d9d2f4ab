----------------------------- MODULE BookIndex -----------------------------
(***************************************************************************)
(* Books and their documents in the search index: biz/book.go,             *)
(* biz/translate.go, biz/search.go, data/es.go.                            *)
(*                                                                         *)
(* CreateBook, UpsertTranslation, TranslateBook and SetBookStatus commit   *)
(* to the database and then, in the same handler, read the book back from  *)
(* the primary, row and translations one after the other, and PUT the      *)
(* whole document.  Nothing orders the PUTs of two handlers, no document   *)
(* carries a version, and every failure after the commit is only logged.   *)
(* A text stands for what title, summary and translations say; the hot     *)
(* field, a count that is as old as the document, and the cache (module    *)
(* Cache) are left out.                                                    *)
(***************************************************************************)
EXTENDS Integers

CONSTANTS
    Books, Texts,
    Editors,   \* handlers of the four operations
    Lagging,   \* a replica is configured
    None

Row == [status: 0..1, text: Texts]   \* 1 listed, 0 taken down

\* Of a handler that failed to hear of its PUT the PUT may still arrive:
\* "put" is the life of the request and not of the handler.
Call == [at: {"deepl", "write", "sync", "texts", "put"}, on: Books,
         status: 0..1 \cup {None}, text: Texts \cup {None}]

ASSUME BookIndexAssumption ==
    /\ Lagging \in BOOLEAN
    /\ None \notin Texts \cup Row \cup Call \cup 0..1

VARIABLES
    book,     \* novel_book with novel_book_translation, on the primary ...
    replica,  \* ... and as the replica has it
    index,    \* the documents of the search index
    edit,     \* the handlers
    stale,    \* those whose book was written since they began to read it
    unsound   \* auxiliary: books the index is not bound to agree with

vars == <<book, replica, index, edit, stale, unsound>>

TypeOK ==
    /\ book \in [Books -> Row \cup {None}]
    /\ replica \in [Books -> Row \cup {None}]
    /\ index \in [Books -> Row \cup {None}]
    /\ edit \in [Editors -> Call \cup {None}]
    /\ stale \subseteq Editors
    /\ unsound \subseteq Books

Init ==
    /\ book = [b \in Books |-> None]
    /\ replica = [b \in Books |-> None]
    /\ index = [b \in Books |-> None]
    /\ edit = [e \in Editors |-> None]
    /\ stale = {}
    /\ unsound = {}

-----------------------------------------------------------------------------
\* What First and Count find without the Write clause.
Shown(b) == IF Lagging THEN replica[b] ELSE book[b]

Replicate(b) ==
    /\ Lagging
    /\ replica[b] # book[b]
    /\ replica' = [replica EXCEPT ![b] = book[b]]
    /\ UNCHANGED <<book, index, edit, stale, unsound>>

Step(at, b) == [at |-> at, on |-> b, status |-> None, text |-> None]
On(e, b) == edit[e] # None /\ edit[e].on = b
Go(e, call) == edit' = [edit EXCEPT ![e] = call]

\* A commit on b: who has begun to read b has an old picture of it.
Commit(e, b, row) ==
    /\ book' = [book EXCEPT ![b] = row]
    /\ stale' = (stale \ {e}) \cup {f \in Editors \ {e} : On(f, b) /\ edit[f].at \in {"texts", "put"}}

\* One transaction: the book, its categories, tags and translations.
CreateBook(e, b, t) ==
    /\ edit[e] = None
    /\ book[b] = None
    /\ Commit(e, b, [status |-> 1, text |-> t])
    /\ Go(e, Step("sync", b))
    /\ UNCHANGED <<replica, index, unsound>>

UpsertTranslation(e, b) ==
    /\ edit[e] = None
    /\ Shown(b) # None
    /\ Go(e, Step("write", b))
    /\ UNCHANGED <<book, replica, index, stale, unsound>>

\* The book is read and its title and summary are sent to DeepL.
TranslateBook(e, b) ==
    /\ edit[e] = None
    /\ Shown(b) # None
    /\ Go(e, Step("deepl", b))
    /\ UNCHANGED <<book, replica, index, stale, unsound>>

Translated(e) ==
    /\ edit[e] # None /\ edit[e].at = "deepl"
    /\ Go(e, Step("write", edit[e].on))
    /\ UNCHANGED <<book, replica, index, stale, unsound>>

\* upsertTranslation.
WriteText(e, t) ==
    LET b == edit[e].on
    IN  /\ edit[e] # None /\ edit[e].at = "write"
        /\ Commit(e, b, [status |-> book[b].status, text |-> t])
        /\ Go(e, Step("sync", b))
        /\ UNCHANGED <<replica, index, unsound>>

\* DeepL, or the database, fails; so does upsertTranslation when a replica
\* does not show the row it should update, and the INSERT meets it.
Refused(e) ==
    /\ edit[e] # None /\ edit[e].at \in {"deepl", "write"}
    /\ Go(e, None)
    /\ UNCHANGED <<book, replica, index, stale, unsound>>

\* Mutant: the argument is not checked.
AnyStatus == 0..2

Statuses == 0..1

\* A value that is there already may count as no row: an error, and no sync.
SetBookStatus(e, b, s) ==
    /\ edit[e] = None
    /\ book[b] # None
    /\ Commit(e, b, [status |-> s, text |-> book[b].text])
    /\ Go(e, Step("sync", b))
    /\ UNCHANGED <<replica, index, unsound>>

-----------------------------------------------------------------------------
(* syncBookIndex. *)

\* Mutant: the Write clause is missing.
ReadsShown(b) == Shown(b)

Reads(b) == book[b]

SyncBook(e) ==
    LET row == Reads(edit[e].on)
    IN  /\ edit[e] # None /\ edit[e].at = "sync"
        /\ row # None
        /\ Go(e, [at |-> "texts", on |-> edit[e].on, status |-> row.status, text |-> None])
        /\ UNCHANGED <<book, replica, index, stale, unsound>>

SyncTexts(e) ==
    LET row == Reads(edit[e].on)
    IN  /\ edit[e] # None /\ edit[e].at = "texts"
        /\ row # None
        /\ Go(e, [at |-> "put", on |-> edit[e].on, status |-> edit[e].status, text |-> row.text])
        /\ UNCHANGED <<book, replica, index, stale, unsound>>

\* e has committed, and its document shows, or will show, what b is.
Fresh(e, b) == On(e, b) /\ edit[e].at \in {"sync", "texts", "put"} /\ e \notin stale

\* The search engine takes the document whatever it held.
Upsert(e) ==
    LET b == edit[e].on
    IN  /\ edit[e] # None /\ edit[e].at = "put"
        /\ index' = [index EXCEPT ![b] = [status |-> edit[e].status, text |-> edit[e].text]]
        /\ unsound' = IF e \notin stale THEN unsound \ {b}
                      ELSE IF \E f \in Editors : Fresh(f, b) THEN unsound ELSE unsound \cup {b}
        /\ stale' = stale \ {e}
        /\ Go(e, None)
        /\ UNCHANGED <<book, replica>>

\* A read fails, the process dies, or the PUT is lost or refused: logged.
SyncFails(e) ==
    /\ edit[e] # None /\ edit[e].at \in {"sync", "texts", "put"}
    /\ unsound' = unsound \cup {edit[e].on}
    /\ stale' = stale \ {e}
    /\ Go(e, None)
    /\ UNCHANGED <<book, replica, index>>

\* The index is gone; esSearch creates it again, empty.
EnsureIndex ==
    /\ \E b \in Books : index[b] # None
    /\ index' = [b \in Books |-> None]
    /\ unsound' = {b \in Books : book[b] # None}
    /\ UNCHANGED <<book, replica, edit, stale>>

-----------------------------------------------------------------------------
Sync(e) == SyncBook(e) \/ SyncTexts(e) \/ Upsert(e) \/ SyncFails(e)

Translation(e) == Translated(e) \/ Refused(e) \/ \E t \in Texts : WriteText(e, t)

Editor(e) ==
    \/ \E b \in Books, t \in Texts : CreateBook(e, b, t)
    \/ \E b \in Books : UpsertTranslation(e, b) \/ TranslateBook(e, b)
    \/ \E b \in Books, s \in Statuses : SetBookStatus(e, b, s)
    \/ Translation(e)
    \/ Sync(e)

Next ==
    \/ \E e \in Editors : Editor(e)
    \/ \E b \in Books : Replicate(b)
    \/ EnsureIndex

\* Every call of the clients has a timeout: what was begun ends.
Fairness == \A e \in Editors : WF_vars(Translation(e) \/ Sync(e))

Spec == Init /\ [][Next]_vars /\ Fairness

-----------------------------------------------------------------------------
(* What must hold. *)

Quiet(b) == \A e \in Editors : ~On(e, b)

\* Mutant: the query has no must_not clause.
FoundAnyway(b) == index[b] # None

\* Search finds a document that is not marked as taken down.
Found(b) == index[b] # None /\ index[b].status # 0

\* Once the handlers of a book are done, the index shows its status and its
\* texts, and a search finds it exactly if it is listed: unless, after the
\* last commit, a document read before it came last, a synchronisation failed
\* or the index was lost (unsound), and none has succeeded since.
InSync ==
    \A b \in Books : book[b] # None /\ Quiet(b) /\ b \notin unsound =>
        /\ index[b] = book[b]
        /\ Found(b) <=> book[b].status = 1

\* A document that was read after the last commit is the truth when the engine
\* takes it, however many handlers are writing the book: so one synchronisation
\* that succeeds repairs the index.
FreshRepairs ==
    [][\A e \in Editors : Upsert(e) /\ e \notin stale => index'[edit[e].on] = book[edit[e].on]]_vars

\* A book that stays down disappears from the search for good, while handlers
\* go on writing it, unless the index goes on being unsound about it.
DownDisappears ==
    \A b \in Books :
        <>[](book[b] # None /\ book[b].status = 0 /\ b \notin unsound) => <>[]~Found(b)

=============================================================================
