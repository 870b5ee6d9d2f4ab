-------------------------- MODULE BookIndexProofs --------------------------
(***************************************************************************)
(* Proofs about BookIndex, for every number of books, texts and handlers.  *)
(*                                                                         *)
(* What a handler has read is what the book is, unless the book was        *)
(* committed since (ReadsHold, with the auxiliary "stale").  So for every  *)
(* book the index is bound to agree with, either it agrees, or some        *)
(* handler whose picture is fresh has still to put it (Promised): a commit *)
(* makes its own handler that one, a fresh PUT makes the index agree, and  *)
(* a PUT that is not fresh either leaves the promise of another handler    *)
(* or ends the bond.                                                       *)
(***************************************************************************)
EXTENDS BookIndex, TLAPS

\* Handlers and the replica know no book that is not there.
Exist ==
    /\ \A e \in Editors : edit[e] # None => book[edit[e].on] # None
    /\ \A b \in Books : replica[b] # None => book[b] # None

\* What a handler has read is what the book is, if nothing was committed since.
ReadsHold ==
    \A e \in Editors : edit[e] # None =>
        /\ edit[e].at = "texts" =>
              /\ edit[e].status \in 0..1
              /\ e \notin stale => edit[e].status = book[edit[e].on].status
        /\ edit[e].at = "put" =>
              /\ edit[e].status \in 0..1 /\ edit[e].text \in Texts
              /\ e \notin stale =>
                    book[edit[e].on] = [status |-> edit[e].status, text |-> edit[e].text]

StaleRead == \A e \in stale : edit[e] # None /\ edit[e].at \in {"texts", "put"}

Promised ==
    \A b \in Books : book[b] # None /\ b \notin unsound =>
        index[b] = book[b] \/ \E f \in Editors : Fresh(f, b)

IInv == TypeOK /\ Exist /\ ReadsHold /\ StaleRead /\ Promised

-----------------------------------------------------------------------------
LEMMA StepType ==
    ASSUME NEW at \in {"deepl", "write", "sync"}, NEW b \in Books
    PROVE  /\ Step(at, b) \in Call /\ Step(at, b) # None
           /\ Step(at, b).on = b /\ Step(at, b).at = at
<1>1. Step(at, b) \in Call
  BY DEF Step, Call
<1> QED
  BY <1>1, BookIndexAssumption DEF Step

\* A commit of handler e on b, after which it goes on to synchronise.
LEMMA CommitStep ==
    ASSUME IInv, NEW e \in Editors, NEW b \in Books, NEW row \in Row,
           edit[e] # None => edit[e].at \notin {"sync", "texts", "put"},
           Commit(e, b, row), Go(e, Step("sync", b)),
           UNCHANGED <<replica, index, unsound>>
    PROVE  IInv'
<1>a. row # None
  BY BookIndexAssumption
<1>t. TypeOK /\ Exist /\ ReadsHold /\ StaleRead /\ Promised
  BY DEF IInv
<1>1. /\ book' = [book EXCEPT ![b] = row]
      /\ stale' = (stale \ {e}) \cup
            {f \in Editors \ {e} : On(f, b) /\ edit[f].at \in {"texts", "put"}}
  BY DEF Commit
<1>2. /\ edit' \in [Editors -> Call \cup {None}]
      /\ edit'[e] # None /\ edit'[e].on = b /\ edit'[e].at = "sync"
      /\ \A f \in Editors \ {e} : edit'[f] = edit[f]
  BY <1>t, StepType DEF TypeOK, Go
<1>3. TypeOK'
  BY <1>t, <1>1, <1>2 DEF TypeOK
<1>4. Exist'
  BY <1>t, <1>a, <1>1, <1>2 DEF TypeOK, Exist
<1>5. ReadsHold'
  <2> SUFFICES ASSUME NEW f \in Editors, edit'[f] # None
               PROVE  /\ edit'[f].at = "texts" =>
                            /\ edit'[f].status \in 0..1
                            /\ f \notin stale' => edit'[f].status = book'[edit'[f].on].status
                      /\ edit'[f].at = "put" =>
                            /\ edit'[f].status \in 0..1 /\ edit'[f].text \in Texts
                            /\ f \notin stale' =>
                                 book'[edit'[f].on] = [status |-> edit'[f].status, text |-> edit'[f].text]
    BY DEF ReadsHold
  <2>1. CASE f = e
    BY <1>2, <2>1
  <2>2. CASE f # e /\ edit[f].on = b
    BY <1>t, <1>1, <1>2, <2>2 DEF ReadsHold, On
  <2>3. CASE f # e /\ edit[f].on # b
    <3>1. book'[edit[f].on] = book[edit[f].on]
      BY <1>t, <1>1, <1>2, <2>3 DEF TypeOK, Call
    <3> QED
      BY <1>t, <1>1, <1>2, <2>3, <3>1 DEF ReadsHold
  <2> QED
    BY <2>1, <2>2, <2>3
<1>6. StaleRead'
  BY <1>t, <1>1, <1>2 DEF StaleRead, On, TypeOK
<1>7. Promised'
  <2>1. Fresh(e, b)'
    BY <1>1, <1>2 DEF Fresh, On
  <2>2. ASSUME NEW c \in Books, c # b, NEW f \in Editors, Fresh(f, c) PROVE Fresh(f, c)'
    <3>1. f # e
      BY <2>2 DEF Fresh, On
    <3> QED
      BY <1>1, <1>2, <2>2, <3>1 DEF Fresh, On
  <2>3. \A c \in Books : c # b => book'[c] = book[c]
    BY <1>1, <1>t DEF TypeOK
  <2> QED
    BY <1>t, <2>1, <2>2, <2>3 DEF Promised
<1> QED
  BY <1>3, <1>4, <1>5, <1>6, <1>7 DEF IInv

\* A step that writes neither the book nor the index.
LEMMA QuietStep ==
    ASSUME IInv, NEW e \in Editors, NEW call \in Call \cup {None},
           Go(e, call), UNCHANGED <<book, replica, index, stale, unsound>>,
           call # None => book[call.on] # None,
           call = None => (edit[e] = None \/ edit[e].at \in {"deepl", "write"}),
           call # None /\ call.at \in {"texts", "put"} =>
              /\ call.status \in 0..1
              /\ e \notin stale => call.status = book[call.on].status
              /\ call.at = "put" =>
                    /\ call.text \in Texts
                    /\ e \notin stale => call.text = book[call.on].text,
           e \in stale => call # None /\ call.at \in {"texts", "put"},
           \A b \in Books : Fresh(e, b) => call # None /\ call.on = b /\ call.at \in {"sync", "texts", "put"}
    PROVE  IInv'
<1>t. TypeOK /\ Exist /\ ReadsHold /\ StaleRead /\ Promised
  BY DEF IInv
<1>1. /\ edit' \in [Editors -> Call \cup {None}] /\ edit'[e] = call
      /\ \A f \in Editors \ {e} : edit'[f] = edit[f]
  BY <1>t DEF TypeOK, Go
<1>2. TypeOK'
  BY <1>t, <1>1 DEF TypeOK
<1>3. Exist'
  BY <1>t, <1>1 DEF Exist
<1>4. ReadsHold'
  <2> SUFFICES ASSUME NEW f \in Editors, edit'[f] # None
               PROVE  /\ edit'[f].at = "texts" =>
                            /\ edit'[f].status \in 0..1
                            /\ f \notin stale => edit'[f].status = book[edit'[f].on].status
                      /\ edit'[f].at = "put" =>
                            /\ edit'[f].status \in 0..1 /\ edit'[f].text \in Texts
                            /\ f \notin stale =>
                                 book[edit'[f].on] = [status |-> edit'[f].status, text |-> edit'[f].text]
    BY DEF ReadsHold
  <2>1. CASE f # e
    BY <1>t, <1>1, <2>1 DEF ReadsHold
  <2>2. CASE f = e
    <3>1. call \in Call /\ call.on \in Books
      BY <1>1, <2>2 DEF Call
    <3>2. book[call.on] = [status |-> book[call.on].status, text |-> book[call.on].text]
      BY <1>1, <1>t, <2>2, <3>1 DEF TypeOK, Row
    <3> QED
      BY <1>1, <2>2, <3>2
  <2> QED
    BY <2>1, <2>2
<1>5. StaleRead'
  BY <1>t, <1>1 DEF StaleRead, TypeOK
<1>6. Promised'
  <2>1. ASSUME NEW b \in Books, NEW f \in Editors, Fresh(f, b) PROVE Fresh(f, b)'
    BY <1>1, <2>1 DEF Fresh, On
  <2> QED
    BY <1>t, <2>1 DEF Promised
<1> QED
  BY <1>2, <1>3, <1>4, <1>5, <1>6 DEF IInv

\* A handler that ends after its commit.
LEMMA EndStep ==
    ASSUME IInv, NEW e \in Editors, edit[e] # None,
           Go(e, None), stale' = stale \ {e}, UNCHANGED <<book, replica>>,
           index' \in [Books -> Row \cup {None}], unsound' \subseteq Books,
           Promised'
    PROVE  IInv'
<1>t. TypeOK /\ Exist /\ ReadsHold /\ StaleRead
  BY DEF IInv
<1>1. /\ edit' \in [Editors -> Call \cup {None}] /\ edit'[e] = None
      /\ \A f \in Editors \ {e} : edit'[f] = edit[f]
  BY <1>t DEF TypeOK, Go
<1>2. TypeOK'
  BY <1>t, <1>1 DEF TypeOK
<1>3. Exist'
  BY <1>t, <1>1 DEF Exist
<1>4. ReadsHold'
  BY <1>t, <1>1 DEF ReadsHold
<1>5. StaleRead'
  BY <1>t, <1>1 DEF StaleRead, TypeOK
<1> QED
  BY <1>2, <1>3, <1>4, <1>5 DEF IInv

LEMMA SyncStep == ASSUME IInv, NEW e \in Editors, Sync(e) PROVE IInv'
<1>t. TypeOK /\ Exist /\ ReadsHold /\ StaleRead /\ Promised
  BY DEF IInv
<1> DEFINE b == edit[e].on
<1>e. edit[e] # None /\ edit[e] \in Call /\ b \in Books
  BY <1>t DEF Sync, SyncBook, SyncTexts, Upsert, SyncFails, TypeOK, Call
<1>1. CASE SyncBook(e)
  <2> DEFINE call == [at |-> "texts", on |-> b, status |-> book[b].status, text |-> None]
  <2>1. /\ edit[e].at = "sync" /\ book[b] # None /\ Go(e, call)
        /\ UNCHANGED <<book, replica, index, stale, unsound>>
    BY <1>1 DEF SyncBook, Reads
  <2>2. book[b].status \in 0..1
    BY <1>t, <1>e, <2>1 DEF TypeOK, Row
  <2>3. call \in Call /\ call # None
    BY <1>e, <2>2, BookIndexAssumption DEF Call
  <2>4. call.at = "texts" /\ call.on = b /\ call.status = book[b].status
    OBVIOUS
  <2>5. e \notin stale /\ \A c \in Books : Fresh(e, c) => c = b
    BY <1>t, <2>1 DEF StaleRead, Fresh, On
  <2> HIDE DEF call, b
  <2> QED
    BY QuietStep, <2>1, <2>2, <2>3, <2>4, <2>5
<1>2. CASE SyncTexts(e)
  <2> DEFINE call == [at |-> "put", on |-> b, status |-> edit[e].status, text |-> book[b].text]
  <2>1. /\ edit[e].at = "texts" /\ book[b] # None /\ Go(e, call)
        /\ UNCHANGED <<book, replica, index, stale, unsound>>
    BY <1>2 DEF SyncTexts, Reads
  <2>2. book[b].text \in Texts /\ edit[e].status \in 0..1
        /\ (e \notin stale => edit[e].status = book[b].status)
    BY <1>t, <1>e, <2>1 DEF TypeOK, Row, ReadsHold
  <2>3. call \in Call /\ call # None
    BY <1>e, <2>2, BookIndexAssumption DEF Call
  <2>4. call.at = "put" /\ call.on = b /\ call.status = edit[e].status /\ call.text = book[b].text
    OBVIOUS
  <2>5. \A c \in Books : Fresh(e, c) => c = b
    BY DEF Fresh, On
  <2> HIDE DEF call, b
  <2> QED
    BY QuietStep, <2>1, <2>2, <2>3, <2>4, <2>5
<1>3. CASE Upsert(e)
  <2> DEFINE doc == [status |-> edit[e].status, text |-> edit[e].text]
  <2>1. /\ edit[e].at = "put" /\ index' = [index EXCEPT ![b] = doc]
        /\ unsound' = IF e \notin stale THEN unsound \ {b}
                      ELSE IF \E f \in Editors : Fresh(f, b) THEN unsound ELSE unsound \cup {b}
        /\ stale' = stale \ {e} /\ Go(e, None) /\ UNCHANGED <<book, replica>>
    BY <1>3 DEF Upsert
  <2>2. doc \in Row
    BY <1>t, <1>e, <2>1 DEF ReadsHold, Row
  <2>3. index' \in [Books -> Row \cup {None}] /\ unsound' \subseteq Books
        /\ index'[b] = doc /\ \A c \in Books : c # b => index'[c] = index[c]
    BY <1>t, <1>e, <2>1, <2>2 DEF TypeOK
  <2>4. ASSUME NEW c \in Books, NEW f \in Editors, f # e, Fresh(f, c) PROVE Fresh(f, c)'
    BY <2>1, <2>4, <1>t DEF Fresh, On, Go, TypeOK
  <2>5. Promised'
    <3> SUFFICES ASSUME NEW c \in Books, book[c] # None, c \notin unsound'
                 PROVE  index'[c] = book[c] \/ \E f \in Editors : Fresh(f, c)'
      BY <2>1 DEF Promised
    <3>1. CASE c # b
      <4>1. c \notin unsound
        BY <2>1, <3>1
      <4>2. \A f \in Editors : Fresh(f, c) => f # e
        BY <3>1 DEF Fresh, On
      <4> QED
        BY <1>t, <2>3, <2>4, <3>1, <4>1, <4>2 DEF Promised
    <3>2. CASE c = b /\ e \notin stale
      BY <1>t, <1>e, <2>1, <2>3, <3>2 DEF ReadsHold
    <3>3. CASE c = b /\ e \in stale
      <4>1. PICK f \in Editors : Fresh(f, b)
        BY <2>1, <3>3
      <4>2. f # e
        BY <3>3, <4>1 DEF Fresh
      <4> QED
        BY <2>4, <3>3, <4>1, <4>2
    <3> QED
      BY <3>1, <3>2, <3>3
  <2> QED
    BY EndStep, <1>e, <2>1, <2>3, <2>5
<1>4. CASE SyncFails(e)
  <2>1. /\ unsound' = unsound \cup {b} /\ stale' = stale \ {e} /\ Go(e, None)
        /\ UNCHANGED <<book, replica, index>>
    BY <1>4 DEF SyncFails
  <2>2. index' \in [Books -> Row \cup {None}] /\ unsound' \subseteq Books
    BY <1>t, <1>e, <2>1 DEF TypeOK
  <2>3. ASSUME NEW c \in Books, c # b, NEW f \in Editors, Fresh(f, c) PROVE Fresh(f, c)'
    <3>1. f # e
      BY <2>3 DEF Fresh, On
    <3> QED
      BY <2>1, <2>3, <3>1, <1>t DEF Fresh, On, Go, TypeOK
  <2>4. Promised'
    BY <1>t, <2>1, <2>3 DEF Promised
  <2> QED
    BY EndStep, <1>e, <2>1, <2>2, <2>4
<1> QED
  BY <1>1, <1>2, <1>3, <1>4 DEF Sync

LEMMA EditorStep == ASSUME IInv, NEW e \in Editors, Editor(e) PROVE IInv'
<1>t. TypeOK /\ Exist /\ ReadsHold /\ StaleRead
  BY DEF IInv
<1>s. \A b \in Books : Shown(b) # None => book[b] # None
  BY <1>t DEF Shown, Exist
<1>1. ASSUME NEW b \in Books, NEW t \in Texts, CreateBook(e, b, t) PROVE IInv'
  <2>1. [status |-> 1, text |-> t] \in Row
    BY DEF Row
  <2> QED
    BY <1>1, <2>1, CommitStep DEF CreateBook
<1>2. ASSUME NEW b \in Books, NEW s \in Statuses, SetBookStatus(e, b, s) PROVE IInv'
  <2>1. [status |-> s, text |-> book[b].text] \in Row
    BY <1>2, <1>t DEF SetBookStatus, Row, TypeOK, Statuses
  <2> QED
    BY <1>2, <2>1, CommitStep DEF SetBookStatus
<1>3. ASSUME NEW t \in Texts, WriteText(e, t) PROVE IInv'
  <2> DEFINE b == edit[e].on
  <2>1. b \in Books /\ book[b] # None
    BY <1>3, <1>t DEF WriteText, TypeOK, Call, Exist
  <2>2. [status |-> book[b].status, text |-> t] \in Row
    BY <2>1, <1>t DEF Row, TypeOK
  <2> QED
    BY <1>3, <2>1, <2>2, CommitStep DEF WriteText
<1>4. ASSUME NEW at \in {"deepl", "write"}, NEW b \in Books, book[b] # None,
             edit[e] = None \/ edit[e].at = "deepl",
             Go(e, Step(at, b)), UNCHANGED <<book, replica, index, stale, unsound>>
      PROVE  IInv'
  <2>1. e \notin stale /\ \A c \in Books : ~Fresh(e, c)
    BY <1>4, <1>t DEF StaleRead, Fresh, On
  <2>2. Step(at, b) \in Call \cup {None} /\ Step(at, b).on = b /\ Step(at, b).at = at
        /\ Step(at, b) # None
    BY StepType
  <2> HIDE DEF Step
  <2> QED
    BY <1>4, <2>1, <2>2, QuietStep
<1>5. ASSUME NEW b \in Books, UpsertTranslation(e, b) \/ TranslateBook(e, b) PROVE IInv'
  BY <1>4, <1>5, <1>s DEF UpsertTranslation, TranslateBook
<1>6. CASE Translated(e)
  <2>1. edit[e].on \in Books /\ book[edit[e].on] # None
    BY <1>6, <1>t DEF Translated, TypeOK, Call, Exist
  <2> QED
    BY <1>4, <1>6, <2>1 DEF Translated
<1>7. CASE Refused(e)
  <2>1. e \notin stale /\ \A c \in Books : ~Fresh(e, c)
    BY <1>7, <1>t DEF Refused, StaleRead, Fresh, On
  <2> QED
    BY <1>7, <2>1, QuietStep DEF Refused
<1> QED
  BY <1>1, <1>2, <1>3, <1>5, <1>6, <1>7, SyncStep DEF Editor, Translation

LEMMA Inductive == IInv /\ [Next]_vars => IInv'
<1> SUFFICES ASSUME IInv, [Next]_vars PROVE IInv'
  OBVIOUS
<1>t. TypeOK /\ Exist /\ ReadsHold /\ StaleRead /\ Promised
  BY DEF IInv
<1>1. ASSUME NEW b \in Books, Replicate(b) PROVE IInv'
  <2>1. TypeOK'
    BY <1>1, <1>t DEF Replicate, TypeOK
  <2>2. Exist'
    BY <1>1, <1>t DEF Replicate, Exist, TypeOK
  <2>3. ReadsHold' /\ StaleRead' /\ Promised'
    BY <1>1, <1>t DEF Replicate, ReadsHold, StaleRead, Promised, Fresh, On
  <2> QED
    BY <2>1, <2>2, <2>3 DEF IInv
<1>2. CASE EnsureIndex
  <2>1. TypeOK' /\ Exist' /\ ReadsHold' /\ StaleRead'
    BY <1>2, <1>t DEF EnsureIndex, TypeOK, Exist, ReadsHold, StaleRead
  <2>2. Promised'
    BY <1>2 DEF EnsureIndex, Promised
  <2> QED
    BY <2>1, <2>2 DEF IInv
<1>3. CASE UNCHANGED vars
  BY <1>3, <1>t DEF vars, IInv, TypeOK, Exist, ReadsHold, StaleRead, Promised, Fresh, On
<1> QED
  BY <1>1, <1>2, <1>3, EditorStep DEF Next

LEMMA Invariance == Spec => []IInv
<1>1. Init => IInv
  BY DEF Init, IInv, TypeOK, Exist, ReadsHold, StaleRead, Promised
<1> QED
  BY <1>1, Inductive, PTL DEF Spec

-----------------------------------------------------------------------------
\* Type correctness of the books, their replica, the index and the handlers.
THEOREM TypeCorrect == Spec => []TypeOK
<1>1. IInv => TypeOK
  BY DEF IInv
<1> QED
  BY Invariance, <1>1, PTL

\* syncBookIndex keeps its word however many handlers write one book: when
\* they are done the search shows the book as it is, but for books of which a
\* synchronisation failed or came last although it had read first.
THEOREM SearchAgrees == Spec => []InSync
<1>1. IInv => InSync
  <2> SUFFICES ASSUME IInv, NEW b \in Books, book[b] # None, Quiet(b), b \notin unsound
               PROVE  index[b] = book[b] /\ (Found(b) <=> book[b].status = 1)
    BY DEF InSync
  <2>1. index[b] = book[b]
    BY DEF IInv, Promised, Fresh, Quiet
  <2>2. book[b].status \in 0..1
    BY DEF IInv, TypeOK, Row
  <2> QED
    BY <2>1, <2>2 DEF Found
<1> QED
  BY Invariance, <1>1, PTL

\* A PUT whose handler read the book after the last commit makes the index
\* right, whatever it held before.
THEOREM OnePutRepairs == Spec => FreshRepairs
<1> DEFINE Repairs == \A e \in Editors :
             Upsert(e) /\ e \notin stale => index'[edit[e].on] = book[edit[e].on]
<1>1. IInv => Repairs
  <2> SUFFICES ASSUME IInv, NEW e \in Editors, Upsert(e), e \notin stale
               PROVE  index'[edit[e].on] = book[edit[e].on]
    OBVIOUS
  <2>1. edit[e].on \in Books /\ edit[e] # None /\ edit[e].at = "put"
    BY DEF Upsert, IInv, TypeOK, Call
  <2>2. index'[edit[e].on] = [status |-> edit[e].status, text |-> edit[e].text]
    BY <2>1 DEF Upsert, IInv, TypeOK
  <2> QED
    BY <2>1, <2>2 DEF IInv, ReadsHold
<1>2. IInv => [Repairs]_vars
  BY <1>1
<1> QED
  BY Invariance, <1>2, PTL DEF FreshRepairs

=============================================================================
