--------------------------- MODULE StoredMailProofs ---------------------------
(***************************************************************************)
(* The mail that is stored.                                                *)
(*                                                                         *)
(* Reception: no mail is left behind the cursor, for any number of         *)
(* workers, messages and mailbox rows.  The invariant says what a pass     *)
(* under way may rely on: up to the cursor it will commit, everything it   *)
(* could read is stored or in its hands, and so is everything up to what   *)
(* it still has to fetch.                                                  *)
(*                                                                         *)
(* Reading: a listing and a conversation are what they should be, in every *)
(* state of the store, and what was muted stays out of sight.  The         *)
(* invariant says what each request under way may rely on.                 *)
(***************************************************************************)
EXTENDS MailboxImport, Inbox, FiniteSetTheorems, SequenceTheorems, WellFoundedInduction, TLAPS

-----------------------------------------------------------------------------
(* Reception *)

\* What the pass of a worker knows to be in its row once its commit is done; a
\* worker that adopts brings all of it itself.
Holds(w) == IF current[w].id = 0 THEN batch[w] ELSE stored \cup batch[w]

\* The row the worker reads for may still be there.
Aimed(w) == current[w].id \in {0, row.id}

Legible == inbox \ Unreadable
UnderWay == {"fetch", "commit", "reread", "last"}

\* No cursor or search is past the mail that has arrived, no worker knows a row
\* yet to be made, and only a commit under way has a message in hand.
Bounded(w) ==
  /\ current[w].cursor <= arrived
  /\ current[w].id <= made
  /\ current[w].id = 0 => current[w].cursor = 0
  /\ last[w] <= arrived
  /\ todo[w] \subseteq 1 .. arrived
  /\ pc[w] \notin {"commit", "failing"} => batch[w] = {}

AllBounded == \A w \in Workers : Bounded(w)

RowIsBounded == /\ row.cursor <= arrived
                /\ row.id = 0 => row.cursor = 0 /\ stored = {}

\* Up to the cursor a pass starts from, or has reached, all that can be read is
\* held; up to a UID it has found and not fetched, it is held or found too.
Sound(w) ==
  Aimed(w) =>
    /\ pc[w] = "search" => \A u \in Legible : u <= current[w].cursor => u \in Holds(w)
    /\ pc[w] \in UnderWay =>
         \A u \in Legible :
           /\ u <= last[w] => u \in Holds(w)
           /\ \A v \in todo[w] : u <= v => u \in Holds(w) \cup todo[w]

AllSound == \A w \in Workers : Sound(w)

IInv == TypeOK /\ RowIsBounded /\ AllBounded /\ AllSound /\ NothingSkipped

-----------------------------------------------------------------------------
(* Types. *)

LEMMA NoMailboxType == NoMailbox \in MailboxRows /\ NoMailbox.id = 0
  BY ImportAssumption DEF NoMailbox, MailboxRows, Cursors

LEMMA NewMailboxType ==
  ASSUME TypeOK, made < MaxRows, NEW uid \in Cursors
  PROVE  /\ NewMailbox(uid) \in MailboxRows
         /\ NewMailbox(uid).id = made + 1
         /\ NewMailbox(uid).cursor = uid
         /\ made + 1 \in 0 .. MaxRows
  BY ImportAssumption DEF TypeOK, NewMailbox, MailboxRows, Cursors

LEMMA MadeType == TypeOK => made \in Int /\ row.id \in Int
  BY ImportAssumption DEF TypeOK, MailboxRows

LEMMA ReturnType ==
  ASSUME TypeOK, NEW w \in Workers, Return(w)
  PROVE  /\ pc' \in [Workers -> Places]
         /\ task' \in [Workers -> Tasks]
         /\ current' \in [Workers -> MailboxRows]
         /\ todo' \in [Workers -> SUBSET Uids]
         /\ last' \in [Workers -> Cursors]
         /\ batch' \in [Workers -> SUBSET Uids]
  BY NoMailboxType, ImportAssumption DEF TypeOK, Return, Goto, Read, Places, Tasks, Cursors

\* What a commit that succeeds makes of the row and its messages.
LEMMA CommitType ==
  ASSUME TypeOK, NEW w \in Workers, Adopts(w) \/ Adds(w)
  PROVE  /\ row' \in MailboxRows /\ row'.id <= made' /\ row'.cursor = last[w]
         /\ failing' \in BOOLEAN
         /\ made' \in 0 .. MaxRows
         /\ stored' \subseteq Uids
  <1>1. last[w] \in Cursors /\ batch[w] \subseteq Uids /\ stored \subseteq Uids
    BY DEF TypeOK
  <1>2. CASE Adopts(w)
    <2>1. /\ row' = NewMailbox(last[w]) /\ made' = made + 1 /\ made < MaxRows
          /\ failing' = FALSE /\ stored' = batch[w]
      BY <1>2 DEF Adopts, Reached
    <2>2. /\ NewMailbox(last[w]) \in MailboxRows
          /\ NewMailbox(last[w]).id = made + 1
          /\ NewMailbox(last[w]).cursor = last[w]
          /\ made + 1 \in 0 .. MaxRows
      BY <1>1, <2>1, NewMailboxType
    <2>3. row' \in MailboxRows /\ row'.cursor = last[w] /\ row'.id = made + 1
      BY <2>1, <2>2
    <2>4. made + 1 \in Int
      BY MadeType
    <2>5. row'.id <= made' /\ made' \in 0 .. MaxRows
      BY <2>1, <2>2, <2>3, <2>4
    <2> QED BY <1>1, <2>1, <2>3, <2>5
  <1>3. CASE Adds(w)
    BY <1>1, <1>3 DEF Adds, Reached, TypeOK, MailboxRows
  <1> QED BY <1>2, <1>3

LEMMA InitTypeOK == Init => TypeOK
  <1> SUFFICES ASSUME Init PROVE TypeOK
    OBVIOUS
  <1>1. 0 \in Cursors /\ 0 \in 0 .. MaxRows
    BY ImportAssumption DEF Cursors
  <1>2. row \in MailboxRows /\ row.id <= made /\ made \in 0 .. MaxRows
    BY <1>1, NoMailboxType DEF Init
  <1>3. current \in [Workers -> MailboxRows]
    BY NoMailboxType DEF Init
  <1> QED BY <1>1, <1>2, <1>3 DEF Init, TypeOK, Places, Tasks

LEMMA StepTypeOK == TypeOK /\ [Next]_vars => TypeOK'
  <1> SUFFICES ASSUME TypeOK, [Next]_vars PROVE TypeOK'
    OBVIOUS
  <1>0. MaxUid \in Nat /\ MaxRows \in Nat
    BY ImportAssumption
  <1> USE DEF TypeOK, provider, pass, Goto, Read, Places, Tasks, Passing
  <1>1. ASSUME NEW w \in Workers, PassStep(w) PROVE TypeOK'
    <2>1. CASE OpenMailbox(w)
      BY <2>1 DEF OpenMailbox
    <2>2. CASE TagItem(w)
      BY <2>2 DEF TagItem
    <2>3. CASE FindMailbox(w)
      BY <2>3 DEF FindMailbox
    <2>4. CASE EnableMailbox(w)
      BY <2>4 DEF EnableMailbox, MailboxRows
    <2>5. CASE Search(w)
      <3>1. inbox \subseteq Uids
        BY <1>0 DEF Uids, Cursors
      <3>2. current[w].cursor \in Cursors
        BY DEF MailboxRows
      <3> QED BY <2>5, <3>1, <3>2 DEF Search
    <2>6. CASE Fetch(w)
      BY <1>0, <2>6 DEF Fetch, Uids, Cursors
    <2>7. CASE Commit(w)
      BY <2>7, CommitType DEF Commit
    <2>8. CASE Reread(w)
      BY <2>8, ReturnType DEF Reread
    <2>9. CASE CommitLast(w)
      BY <2>9, CommitType, ReturnType DEF CommitLast
    <2>10. CASE Fail(w)
      BY <2>10, ReturnType DEF Fail
    <2>11. CASE RecordFailure(w)
      BY <2>11, ReturnType DEF RecordFailure, FailRow
    <2>12. CASE Crash(w)
      BY <2>12, ReturnType DEF Crash
    <2> QED
      BY <1>1, <2>1, <2>2, <2>3, <2>4, <2>5, <2>6, <2>7, <2>8, <2>9, <2>10, <2>11, <2>12
      DEF PassStep
  <1>2. ASSUME NEW w \in Workers, AdminStep(w) PROVE TypeOK'
    <2>1. CASE Reconcile(w)
      BY <2>1 DEF Reconcile
    <2>2. CASE ListMailboxes(w)
      BY <2>2 DEF ListMailboxes
    <2>3. CASE Apply(w)
      <3>1. row' \in MailboxRows /\ row'.id <= made' /\ made' \in 0 .. MaxRows
        <4>1. CASE row' = NewMailbox(0) /\ made' = made + 1 /\ made < MaxRows
          BY <1>0, <4>1, NewMailboxType, MadeType DEF Cursors
        <4>2. CASE \E b \in BOOLEAN : row' = [row EXCEPT !.enabled = b] /\ made' = made
          BY <4>2 DEF MailboxRows
        <4>3. CASE row' = row /\ made' = made
          BY <4>3
        <4> QED BY <2>3, <4>1, <4>2, <4>3 DEF Apply
      <3>2. failing' \in BOOLEAN
        BY <2>3 DEF Apply, FailRow
      <3> QED BY <2>3, <3>1, <3>2, ReturnType DEF Apply
    <2>4. CASE CheckDisabled(w)
      BY <2>4 DEF CheckDisabled
    <2>5. CASE DeleteMailbox(w)
      <3>1. row' \in MailboxRows /\ row'.id <= made
        BY <2>5, <1>0, NoMailboxType DEF DeleteMailbox
      <3> QED BY <2>5, <3>1, ReturnType DEF DeleteMailbox
    <2>6. CASE UntagItem(w)
      BY <2>6 DEF UntagItem
    <2> QED BY <1>2, <2>1, <2>2, <2>3, <2>4, <2>5, <2>6 DEF AdminStep
  <1>3. CASE Arrive
    BY <1>0, <1>3 DEF Arrive, Cursors
  <1>4. ASSUME NEW u \in Uids, Expunge(u) PROVE TypeOK'
    BY <1>4 DEF Expunge
  <1>5. CASE UNCHANGED vars
    BY <1>5 DEF vars
  <1> QED BY <1>1, <1>2, <1>3, <1>4, <1>5 DEF Next

\* Every row, cursor and pass keeps its type, whatever overtakes it.
THEOREM TypeCorrect == Spec => []TypeOK
  BY InitTypeOK, StepTypeOK, PTL DEF Spec

-----------------------------------------------------------------------------
(* Nothing is skipped. *)

\* The numbers a step compares.
LEMMA Numbers ==
  ASSUME TypeOK
  PROVE  /\ arrived \in Nat /\ made \in Nat /\ row.id \in Nat /\ row.cursor \in Nat
         /\ Legible \subseteq Nat \ {0}
         /\ \A w \in Workers : /\ current[w].id \in Nat /\ current[w].cursor \in Nat
                               /\ last[w] \in Nat /\ todo[w] \subseteq Nat \ {0}
  BY ImportAssumption DEF TypeOK, MailboxRows, Cursors, Uids, Legible

\* What a worker's step leaves of the others.
Untouched(v) ==
  /\ pc'[v] = pc[v] /\ current'[v] = current[v] /\ todo'[v] = todo[v]
  /\ last'[v] = last[v] /\ batch'[v] = batch[v]

\* The row stays with its mail, or goes, or is a new one.
RowMoves == \/ row'.id = row.id /\ stored \subseteq stored'
            \/ row'.id = 0
            \/ row'.id = made + 1

\* A pass stays sound through whatever others do to the row.
LEMMA KeptSound ==
  ASSUME IInv, NEW v \in Workers, Untouched(v), RowMoves, Legible' \subseteq Legible
  PROVE  Sound(v)'
  <1> SUFFICES ASSUME Aimed(v)'
               PROVE  /\ pc[v] = "search" =>
                           \A u \in Legible' : u <= current[v].cursor => u \in Holds(v)'
                      /\ pc[v] \in UnderWay =>
                           \A u \in Legible' :
                             /\ u <= last[v] => u \in Holds(v)'
                             /\ \A t \in todo[v] : u <= t => u \in Holds(v)' \cup todo[v]
    BY DEF Sound, Untouched, UnderWay
  <1>1. current[v].id \in Nat /\ row.id \in Nat /\ made \in Nat /\ current[v].id <= made
    BY Numbers DEF IInv, AllBounded, Bounded
  <1>2. Aimed(v) /\ Holds(v) \subseteq Holds(v)'
    <2>1. CASE current[v].id = 0
      BY <2>1 DEF Aimed, Holds, Untouched
    <2>2. CASE current[v].id # 0
      <3>1. row'.id = current[v].id
        BY <2>2 DEF Aimed, Untouched
      <3>2. row'.id = row.id /\ stored \subseteq stored'
        BY <1>1, <2>2, <3>1 DEF RowMoves
      <3> QED BY <2>2, <3>1, <3>2 DEF Aimed, Holds, Untouched
    <2> QED BY <2>1, <2>2
  <1>3. Sound(v)
    BY DEF IInv, AllSound
  <1> QED BY <1>2, <1>3 DEF Sound

\* Mail that arrives is past everything any pass has counted.
LEMMA ArriveSound ==
  ASSUME IInv, Arrive, NEW v \in Workers
  PROVE  Sound(v)'
  <1>1. Legible' \subseteq Legible \cup {arrived + 1}
    BY DEF Arrive, Legible
  <1>2. /\ current[v].cursor <= arrived /\ last[v] <= arrived /\ todo[v] \subseteq 1 .. arrived
        /\ arrived \in Nat /\ current[v].cursor \in Nat /\ last[v] \in Nat
    BY Numbers DEF IInv, AllBounded, Bounded
  <1>3. /\ ~(arrived + 1 <= current[v].cursor)
        /\ ~(arrived + 1 <= last[v])
        /\ \A t \in todo[v] : ~(arrived + 1 <= t)
    BY <1>2
  <1>4. Sound(v)
    BY DEF IInv, AllSound
  <1>5. (Aimed(v)' <=> Aimed(v)) /\ Holds(v)' = Holds(v)
    BY DEF Arrive, pass, Aimed, Holds
  <1>6. /\ pc' = pc /\ current' = current /\ last' = last /\ todo' = todo
    BY DEF Arrive, pass
  <1> QED BY <1>1, <1>3, <1>4, <1>5, <1>6 DEF Sound, UnderWay

\* A step of one worker keeps the invariant if it keeps that worker's part.
LEMMA OneWorker ==
  ASSUME IInv, TypeOK', NEW w \in Workers, \A v \in Workers \ {w} : Untouched(v), RowMoves,
         inbox' = inbox, arrived' = arrived, made <= made',
         RowIsBounded', Bounded(w)', Sound(w)', NothingSkipped'
  PROVE  IInv'
  <1>1. Legible' \subseteq Legible
    BY DEF Legible
  <1>2. ASSUME NEW v \in Workers PROVE Sound(v)'
    BY <1>1, <1>2, KeptSound
  <1>3. ASSUME NEW v \in Workers PROVE Bounded(v)'
    <2>1. CASE v = w
      BY <2>1
    <2>2. CASE v # w
      <3>1. Untouched(v) /\ Bounded(v)
        BY <2>2 DEF IInv, AllBounded
      <3>2. made \in Nat /\ made' \in Int /\ current[v].id \in Nat
        BY Numbers, MadeType DEF IInv, TypeOK
      <3>3. current[v].id <= made'
        BY <3>1, <3>2 DEF Bounded
      <3> QED BY <3>1, <3>3 DEF Untouched, Bounded
    <2> QED BY <2>1, <2>2
  <1> QED BY <1>2, <1>3 DEF IInv, AllBounded, AllSound

\* A worker that returns has nothing left to be wrong about.
LEMMA ReturnSound ==
  ASSUME IInv, NEW w \in Workers, Return(w), arrived' = arrived, made' \in Nat, made <= made'
  PROVE  /\ Bounded(w)' /\ Sound(w)'
         /\ \A v \in Workers \ {w} : Untouched(v)
  <1>0. TypeOK
    BY DEF IInv
  <1>1. /\ pc'[w] = "idle" /\ current'[w] = NoMailbox /\ todo'[w] = {} /\ last'[w] = 0
        /\ batch'[w] = {}
    BY <1>0 DEF TypeOK, Return, Goto, Read
  <1>2. \A v \in Workers \ {w} : Untouched(v)
    BY <1>0 DEF TypeOK, Return, Goto, Read, Untouched
  <1>3. Sound(w)'
    BY <1>1 DEF Sound, UnderWay
  <1>4. NoMailbox.id = 0 /\ NoMailbox.cursor = 0
    BY DEF NoMailbox
  <1>5. arrived \in Nat /\ made \in Nat /\ made <= made'
    BY <1>0, Numbers
  <1>6. 0 <= made'
    BY <1>5
  <1>7. Bounded(w)'
    BY <1>1, <1>4, <1>5, <1>6 DEF Bounded
  <1> QED BY <1>2, <1>3, <1>7

\* What the acting worker's function updates say, for every action that only
\* moves its own pass.
LEMMA ReadSound ==
  ASSUME IInv, TypeOK', NEW w \in Workers, NEW place,
         place \notin UnderWay, pc[w] \notin {"commit", "failing"},
         Goto(w, place), Read(w, row), UNCHANGED <<provider, row, made, stored, pass>>
  PROVE  IInv'
  <1>0. TypeOK
    BY DEF IInv
  <1>1. /\ pc'[w] = place /\ current'[w] = row
        /\ \A v \in Workers \ {w} : Untouched(v)
    BY <1>0 DEF TypeOK, Goto, Read, Untouched, pass
  <1>2. Bounded(w) /\ RowIsBounded /\ NothingSkipped
    BY DEF IInv, AllBounded
  <1>3. Bounded(w)'
    BY <1>0, <1>1, <1>2 DEF Bounded, RowIsBounded, pass, provider, TypeOK
  <1>4. Sound(w)'
    <2>1. row.id = 0 => row.cursor = 0
      BY <1>2 DEF RowIsBounded
    <2>2. ASSUME NEW u \in Legible, u <= row.cursor
          PROVE  u \in IF row.id = 0 THEN batch[w] ELSE stored \cup batch[w]
      <3>1. CASE row.id = 0
        BY <1>0, <2>1, <2>2, <3>1, Numbers
      <3>2. CASE row.id # 0
        BY <1>2, <2>2, <3>2 DEF NothingSkipped, Legible
      <3> QED BY <3>1, <3>2
    <2> QED BY <1>1, <2>2 DEF Sound, Holds, Legible, provider, pass
  <1>5. RowIsBounded' /\ NothingSkipped'
    BY <1>2 DEF RowIsBounded, NothingSkipped, provider
  <1>6. RowMoves /\ inbox' = inbox /\ arrived' = arrived /\ made <= made'
    BY <1>0, Numbers DEF RowMoves, provider
  <1> QED BY <1>1, <1>3, <1>4, <1>5, <1>6, OneWorker

LEMMA MoveSound ==
  ASSUME IInv, TypeOK', NEW w \in Workers, NEW place,
         place \notin UnderWay \cup {"search"},
         pc[w] \notin {"commit", "failing"} \/ place = "failing",
         Goto(w, place), UNCHANGED <<provider, row, made, stored, current, pass>>
  PROVE  IInv'
  <1>0. TypeOK
    BY DEF IInv
  <1>1. pc'[w] = place /\ \A v \in Workers \ {w} : Untouched(v)
    BY <1>0 DEF TypeOK, Goto, Untouched, pass
  <1>2. Bounded(w) /\ RowIsBounded /\ NothingSkipped
    BY DEF IInv, AllBounded
  <1>3. Bounded(w)' /\ Sound(w)'
    BY <1>1, <1>2 DEF Bounded, Sound, pass, provider
  <1>4. RowIsBounded' /\ NothingSkipped'
    BY <1>2 DEF RowIsBounded, NothingSkipped, provider
  <1>5. RowMoves /\ inbox' = inbox /\ arrived' = arrived /\ made <= made'
    BY <1>0, Numbers DEF RowMoves, provider
  <1> QED BY <1>1, <1>3, <1>4, <1>5, OneWorker

LEMMA ReturnKeeps ==
  ASSUME IInv, TypeOK', NEW w \in Workers, Return(w), UNCHANGED provider,
         made <= made', RowMoves, RowIsBounded', NothingSkipped'
  PROVE  IInv'
  <1>1. made' \in Nat /\ arrived' = arrived /\ inbox' = inbox
    BY Numbers DEF provider, TypeOK
  <1> QED BY <1>1, ReturnSound, OneWorker

\* A commit leaves in the row all that its pass held, and the cursor it reached.
LEMMA CommitHolds ==
  ASSUME IInv, NEW w \in Workers, pc[w] \in {"commit", "last"},
         Adopts(w) \/ Adds(w), UNCHANGED provider
  PROVE  /\ RowMoves /\ RowIsBounded' /\ NothingSkipped' /\ made <= made'
         /\ row'.id # 0 /\ row'.id <= made' /\ row'.cursor = last[w]
         /\ stored' = Holds(w) /\ Aimed(w)
  <1>0. TypeOK /\ Sound(w) /\ Bounded(w)
    BY DEF IInv, AllSound, AllBounded
  <1>1. row'.cursor = last[w] /\ row'.id <= made'
    BY <1>0, CommitType
  <1>2. /\ RowMoves /\ made <= made' /\ row'.id # 0
        /\ stored' = Holds(w) /\ Aimed(w)
    <2>1. CASE Adopts(w)
      <3>1. row' = NewMailbox(last[w]) /\ made' = made + 1
        BY <2>1 DEF Adopts, Reached
      <3>2. row'.id = made + 1
        BY <3>1 DEF NewMailbox
      <3> QED BY <1>0, <2>1, <3>1, <3>2, Numbers DEF Adopts, RowMoves, Holds, Aimed
    <2>2. CASE Adds(w)
      <3>1. row'.id = row.id
        BY <1>0, <2>2 DEF Adds, TypeOK, MailboxRows
      <3> QED BY <1>0, <2>2, <3>1, Numbers DEF Adds, RowMoves, Holds, Aimed
    <2> QED BY <2>1, <2>2
  <1>3. NothingSkipped'
    BY <1>0, <1>1, <1>2 DEF NothingSkipped, Sound, UnderWay, Legible, provider
  <1>4. RowIsBounded'
    BY <1>0, <1>1, <1>2 DEF RowIsBounded, Bounded, provider
  <1> QED BY <1>1, <1>2, <1>3, <1>4

LEMMA SearchKeeps ==
  ASSUME IInv, TypeOK', NEW w \in Workers, Search(w)
  PROVE  IInv'
  <1>0. TypeOK /\ Bounded(w) /\ Sound(w) /\ RowIsBounded /\ NothingSkipped
    BY DEF IInv, AllSound, AllBounded
  <1>1. /\ todo'[w] = {u \in inbox : u > current[w].cursor}
        /\ last'[w] = current[w].cursor
        /\ pc'[w] \in {"fetch", "last"}
        /\ \A v \in Workers \ {w} : Untouched(v)
    BY <1>0 DEF Search, TypeOK, Goto, Untouched
  <1>2. /\ UNCHANGED <<inbox, arrived, row, made, stored, current, batch>>
        /\ pc[w] = "search"
    BY DEF Search, provider
  <1>3. Bounded(w)'
    BY <1>0, <1>1, <1>2 DEF Bounded, TypeOK
  <1>4. Sound(w)'
    <2> SUFFICES ASSUME Aimed(w)', NEW u \in Legible'
                 PROVE  /\ u <= last'[w] => u \in Holds(w)'
                        /\ \A v \in todo'[w] : u <= v => u \in Holds(w)' \cup todo'[w]
      BY <1>1 DEF Sound
    <2>1. u \in Legible /\ Aimed(w) /\ Holds(w)' = Holds(w)
      BY <1>2 DEF Legible, Aimed, Holds
    <2>2. u <= current[w].cursor => u \in Holds(w)
      BY <1>0, <1>2, <2>1 DEF Sound
    <2>3. u \in inbox /\ u \in Nat /\ current[w].cursor \in Nat
      BY <1>0, <2>1, Numbers DEF Legible
    <2> QED BY <1>1, <2>1, <2>2, <2>3
  <1>5. RowIsBounded' /\ NothingSkipped'
    BY <1>0, <1>2 DEF RowIsBounded, NothingSkipped
  <1>6. RowMoves /\ made <= made'
    BY <1>0, <1>2, Numbers DEF RowMoves
  <1> QED BY <1>1, <1>2, <1>3, <1>4, <1>5, <1>6, OneWorker

LEMMA FetchKeeps ==
  ASSUME IInv, TypeOK', NEW w \in Workers, Fetch(w)
  PROVE  IInv'
  <1>0. TypeOK /\ Bounded(w) /\ Sound(w) /\ RowIsBounded /\ NothingSkipped
    BY DEF IInv, AllSound, AllBounded
  <1>1. PICK t \in todo[w] :
          /\ \A v \in todo[w] : Earlier(t, v)
          /\ todo' = [todo EXCEPT ![w] = @ \ {t}]
          /\ last' = [last EXCEPT ![w] = t]
          /\ batch' = [batch EXCEPT ![w] = {t} \cap (inbox \ Unreadable)]
    BY DEF Fetch
  <1>2. /\ todo'[w] = todo[w] \ {t} /\ last'[w] = t /\ batch'[w] = {t} \cap Legible
        /\ pc'[w] = "commit"
        /\ \A v \in Workers \ {w} : Untouched(v)
    BY <1>0, <1>1 DEF Fetch, TypeOK, Goto, Untouched, Legible
  <1>3. /\ UNCHANGED <<inbox, arrived, row, made, stored, current>>
        /\ pc[w] = "fetch"
    BY DEF Fetch, provider
  <1>4. Bounded(w)'
    BY <1>0, <1>2, <1>3 DEF Bounded, TypeOK
  <1>5. Sound(w)'
    <2> SUFFICES ASSUME Aimed(w)', NEW u \in Legible'
                 PROVE  /\ u <= t => u \in Holds(w)'
                        /\ \A v \in todo'[w] : u <= v => u \in Holds(w)' \cup todo'[w]
      BY <1>2 DEF Sound
    <2>1. u \in Legible /\ Aimed(w)
      BY <1>3 DEF Legible, Aimed
    <2>2. \A v \in todo[w] : u <= v => u \in Holds(w) \cup todo[w]
      BY <1>0, <1>3, <2>1 DEF Sound, UnderWay
    <2>3. batch[w] = {}
      BY <1>0, <1>3 DEF Bounded
    <2>4. Holds(w) \cup ({t} \cap Legible) \subseteq Holds(w)'
      BY <1>2, <1>3, <2>3 DEF Holds
    <2>5. \A v \in todo[w] : v \in Nat /\ t <= v
      BY <1>0, <1>1, Numbers DEF Earlier
    <2>6. u \in Nat /\ t \in Nat
      BY <1>0, <2>1, <2>5, Numbers
    <2>7. u <= t => u \in Holds(w)'
      <3> SUFFICES ASSUME u <= t PROVE u \in Holds(w)'
        OBVIOUS
      <3>1. CASE u \in Holds(w)
        BY <3>1, <2>4
      <3>2. CASE u \in todo[w]
        <4>1. u = t
          BY <3>2, <2>5, <2>6
        <4> QED BY <4>1, <2>1, <2>4
      <3> QED BY <2>2, <3>1, <3>2
    <2>8. ASSUME NEW v \in todo'[w], u <= v PROVE u \in Holds(w)' \cup todo'[w]
      BY <1>2, <2>1, <2>2, <2>4, <2>8
    <2> QED BY <2>7, <2>8
  <1>6. RowIsBounded' /\ NothingSkipped'
    BY <1>0, <1>3 DEF RowIsBounded, NothingSkipped
  <1>7. RowMoves /\ made <= made'
    BY <1>0, <1>3, Numbers DEF RowMoves
  <1> QED BY <1>2, <1>3, <1>4, <1>5, <1>6, <1>7, OneWorker

LEMMA CommitKeeps ==
  ASSUME IInv, TypeOK', NEW w \in Workers, Commit(w)
  PROVE  IInv'
  <1>0. TypeOK /\ Bounded(w) /\ Sound(w)
    BY DEF IInv, AllSound, AllBounded
  <1>1. /\ batch'[w] = {} /\ pc'[w] = "reread" /\ current'[w] = row'
        /\ todo'[w] = todo[w] /\ last'[w] = last[w]
        /\ \A v \in Workers \ {w} : Untouched(v)
    BY <1>0 DEF Commit, TypeOK, Goto, Read, Untouched
  <1>2. /\ RowMoves /\ RowIsBounded' /\ NothingSkipped' /\ made <= made'
        /\ row'.id # 0 /\ row'.id <= made' /\ row'.cursor = last[w]
        /\ stored' = Holds(w) /\ Aimed(w)
    BY CommitHolds DEF Commit
  <1>3. inbox' = inbox /\ arrived' = arrived
    BY DEF Commit, provider
  <1>4. Bounded(w)'
    BY <1>0, <1>1, <1>2, <1>3 DEF Bounded
  <1>5. Sound(w)'
    <2>1. Holds(w)' = Holds(w)
      BY <1>1, <1>2 DEF Holds
    <2>2. \A u \in Legible :
            /\ u <= last[w] => u \in Holds(w)
            /\ \A v \in todo[w] : u <= v => u \in Holds(w) \cup todo[w]
      BY <1>0, <1>2 DEF Sound, UnderWay, Commit
    <2> QED BY <1>1, <1>3, <2>1, <2>2 DEF Sound, Legible
  <1> QED BY <1>1, <1>2, <1>3, <1>4, <1>5, OneWorker

LEMMA RereadKeeps ==
  ASSUME IInv, TypeOK', NEW w \in Workers, Reread(w)
  PROVE  IInv'
  <1>0. TypeOK /\ Bounded(w) /\ Sound(w) /\ RowIsBounded /\ NothingSkipped
    BY DEF IInv, AllSound, AllBounded
  <1>1. /\ UNCHANGED <<inbox, arrived, row, made, stored>>
        /\ pc[w] = "reread" /\ row.id = current[w].id
    BY DEF Reread, provider
  <1>2. RowMoves /\ made <= made' /\ RowIsBounded' /\ NothingSkipped'
    BY <1>0, <1>1, Numbers DEF RowMoves, RowIsBounded, NothingSkipped
  <1>3. CASE Return(w)
    BY <1>1, <1>2, <1>3, ReturnKeeps DEF Reread
  <1>4. CASE ~Return(w)
    <2>1. /\ pc'[w] \in {"fetch", "last"} /\ current'[w] = row /\ UNCHANGED pass
          /\ \A v \in Workers \ {w} : Untouched(v)
      BY <1>0, <1>4 DEF Reread, TypeOK, Goto, Read, Untouched, pass
    <2>2. Bounded(w)'
      BY <1>0, <1>1, <2>1 DEF Bounded, RowIsBounded, pass
    <2>3. Holds(w)' = Holds(w) /\ Aimed(w)
      BY <1>1, <2>1 DEF Holds, Aimed, pass
    <2>4. Sound(w)'
      BY <1>0, <1>1, <2>1, <2>3 DEF Sound, UnderWay, Legible, pass
    <2> QED BY <1>1, <1>2, <2>1, <2>2, <2>4, OneWorker
  <1> QED BY <1>3, <1>4

LEMMA EnableKeeps ==
  ASSUME IInv, TypeOK', NEW w \in Workers, EnableMailbox(w)
  PROVE  IInv'
  <1>0. TypeOK /\ Bounded(w) /\ RowIsBounded /\ NothingSkipped
    BY DEF IInv, AllBounded
  <1>1. /\ pc'[w] = "search" /\ current'[w] = row'
        /\ \A v \in Workers \ {w} : Untouched(v)
    BY <1>0 DEF EnableMailbox, TypeOK, Goto, Read, Untouched, pass
  <1>2. /\ row'.id = row.id /\ row'.cursor = row.cursor
        /\ UNCHANGED <<inbox, arrived, made, stored, todo, last, batch>>
        /\ pc[w] = "enable" /\ row.id = current[w].id
    BY <1>0 DEF EnableMailbox, TypeOK, MailboxRows, provider, pass
  <1>3. RowMoves /\ made <= made' /\ RowIsBounded' /\ NothingSkipped'
    BY <1>0, <1>2, Numbers DEF RowMoves, RowIsBounded, NothingSkipped
  <1>4. Bounded(w)'
    BY <1>0, <1>1, <1>2 DEF Bounded, RowIsBounded
  <1>5. Sound(w)'
    <2>1. \A u \in Legible : row.id # 0 /\ u <= row.cursor => u \in stored
      BY <1>0 DEF NothingSkipped, Legible
    <2>2. \A u \in Legible : row.id = 0 => ~(u <= row.cursor)
      BY <1>0, Numbers DEF RowIsBounded
    <2> QED BY <1>1, <1>2, <2>1, <2>2 DEF Sound, UnderWay, Holds, Legible
  <1> QED BY <1>1, <1>2, <1>3, <1>4, <1>5, OneWorker

LEMMA ApplyKeeps ==
  ASSUME IInv, TypeOK', NEW w \in Workers, Apply(w)
  PROVE  IInv'
  <1>0. TypeOK /\ RowIsBounded /\ NothingSkipped
    BY DEF IInv
  <1>1. Return(w) /\ UNCHANGED provider /\ stored' = stored
    BY DEF Apply
  <1>2. RowMoves /\ made <= made' /\ RowIsBounded' /\ NothingSkipped'
    <2>1. CASE row' = NewMailbox(0) /\ made' = made + 1 /\ row.id = 0
      <3>1. row'.id = made + 1 /\ row'.cursor = 0
        BY <2>1 DEF NewMailbox
      <3>2. \A u \in inbox' \ Unreadable : ~(u <= row'.cursor)
        BY <1>0, <1>1, <3>1, Numbers DEF Legible, provider
      <3> QED BY <1>0, <1>1, <2>1, <3>1, <3>2, Numbers
              DEF RowMoves, RowIsBounded, NothingSkipped, provider
    <2>2. CASE \E b \in BOOLEAN : row' = [row EXCEPT !.enabled = b] /\ made' = made
      <3>1. row'.id = row.id /\ row'.cursor = row.cursor
        BY <1>0, <2>2 DEF TypeOK, MailboxRows
      <3> QED BY <1>0, <1>1, <2>2, <3>1, Numbers
              DEF RowMoves, RowIsBounded, NothingSkipped, provider
    <2>3. CASE row' = row /\ made' = made
      BY <1>0, <1>1, <2>3, Numbers DEF RowMoves, RowIsBounded, NothingSkipped, provider
    <2> QED BY <2>1, <2>2, <2>3 DEF Apply
  <1> QED BY <1>1, <1>2, ReturnKeeps

LEMMA DeleteKeeps ==
  ASSUME IInv, TypeOK', NEW w \in Workers, DeleteMailbox(w)
  PROVE  IInv'
  <1>0. TypeOK /\ RowIsBounded /\ NothingSkipped
    BY DEF IInv
  <1>1. Return(w) /\ UNCHANGED provider /\ made' = made
    BY DEF DeleteMailbox
  <1>2. RowMoves /\ RowIsBounded' /\ NothingSkipped'
    <2>1. CASE row' = NoMailbox /\ stored' = {}
      BY <1>0, <1>1, <2>1, Numbers
      DEF NoMailbox, RowMoves, RowIsBounded, NothingSkipped, provider
    <2>2. CASE row' = row /\ stored' = stored
      BY <1>0, <1>1, <2>2 DEF RowMoves, RowIsBounded, NothingSkipped, provider
    <2> QED BY <2>1, <2>2 DEF DeleteMailbox
  <1>3. made <= made'
    BY <1>0, <1>1, Numbers
  <1> QED BY <1>1, <1>2, <1>3, ReturnKeeps

LEMMA ReturnAlone ==
  ASSUME IInv, TypeOK', NEW w \in Workers, Return(w),
         UNCHANGED <<provider, row, made, stored>>
  PROVE  IInv'
  <1>1. RowMoves /\ made <= made' /\ RowIsBounded' /\ NothingSkipped'
    BY Numbers DEF IInv, RowMoves, RowIsBounded, NothingSkipped, provider
  <1> QED BY <1>1, ReturnKeeps

\* The steps of the provider.
LEMMA ProviderKeeps ==
  ASSUME IInv, TypeOK', Arrive \/ (\E u \in Uids : Expunge(u))
  PROVE  IInv'
  <1>0. TypeOK /\ RowIsBounded /\ AllBounded /\ NothingSkipped
    BY DEF IInv
  <1>1. CASE Arrive
    <2>1. \A v \in Workers : Sound(v)'
      BY <1>1, ArriveSound
    <2>2. arrived' = arrived + 1 /\ inbox' \subseteq inbox \cup {arrived + 1}
          /\ UNCHANGED <<row, made, stored, pc, current, pass>>
      BY <1>1 DEF Arrive
    <2>3. RowIsBounded' /\ AllBounded'
      <3>1. arrived \in Nat /\ row.cursor \in Nat
            /\ \A w \in Workers : current[w].cursor \in Nat /\ last[w] \in Nat
        BY <1>0, Numbers
      <3>2. ASSUME NEW w \in Workers PROVE Bounded(w)'
        BY <1>0, <2>2, <3>1, <3>2 DEF AllBounded, Bounded, pass
      <3>3. RowIsBounded'
        BY <1>0, <2>2, <3>1 DEF RowIsBounded
      <3> QED BY <3>2, <3>3 DEF AllBounded
    <2>4. NothingSkipped'
      BY <1>0, <2>2, Numbers DEF NothingSkipped, RowIsBounded
    <2> QED BY <2>1, <2>3, <2>4 DEF IInv, AllSound
  <1>2. CASE \E u \in Uids : Expunge(u)
    <2>1. /\ inbox' \subseteq inbox /\ arrived' = arrived
          /\ UNCHANGED <<row, made, stored, pc, current, pass>>
      BY <1>2 DEF Expunge, provider
    <2>2. ASSUME NEW v \in Workers PROVE Sound(v)'
      BY <1>0, <2>1, <2>2, KeptSound DEF Untouched, RowMoves, Legible, pass
    <2>3. RowIsBounded' /\ AllBounded' /\ NothingSkipped'
      BY <1>0, <2>1 DEF RowIsBounded, AllBounded, Bounded, NothingSkipped, pass
    <2> QED BY <2>2, <2>3 DEF IInv, AllSound
  <1> QED BY <1>1, <1>2

LEMMA InitIInv == Init => IInv
  <1> SUFFICES ASSUME Init PROVE IInv
    OBVIOUS
  <1>1. TypeOK
    BY InitTypeOK
  <1>2. NoMailbox.id = 0 /\ NoMailbox.cursor = 0
    BY DEF NoMailbox
  <1>3. RowIsBounded /\ NothingSkipped
    BY <1>2 DEF Init, RowIsBounded, NothingSkipped
  <1>4. AllBounded
    <2> SUFFICES ASSUME NEW w \in Workers PROVE Bounded(w)
      BY DEF AllBounded
    <2>1. /\ current[w].id = 0 /\ current[w].cursor = 0 /\ last[w] = 0
          /\ todo[w] = {} /\ batch[w] = {}
      BY <1>2 DEF Init
    <2>2. arrived = 0 /\ made = 0
      BY DEF Init
    <2> QED BY <2>1, <2>2 DEF Bounded
  <1>5. AllSound
    BY DEF Init, AllSound, Sound, UnderWay
  <1> QED BY <1>1, <1>3, <1>4, <1>5 DEF IInv

LEMMA StepIInv == IInv /\ [Next]_vars => IInv'
  <1> SUFFICES ASSUME IInv, [Next]_vars PROVE IInv'
    OBVIOUS
  <1>0. TypeOK'
    BY StepTypeOK DEF IInv
  <1>1. ASSUME NEW w \in Workers, PassStep(w) PROVE IInv'
    <2>1. CASE OpenMailbox(w)
      BY <1>0, <2>1, ReadSound DEF OpenMailbox, UnderWay
    <2>2. CASE TagItem(w)
      BY <1>0, <2>2, MoveSound DEF TagItem, UnderWay
    <2>3. CASE FindMailbox(w)
      BY <1>0, <2>3, ReadSound DEF FindMailbox, UnderWay
    <2>4. CASE EnableMailbox(w)
      BY <1>0, <2>4, EnableKeeps
    <2>5. CASE Search(w)
      BY <1>0, <2>5, SearchKeeps
    <2>6. CASE Fetch(w)
      BY <1>0, <2>6, FetchKeeps
    <2>7. CASE Commit(w)
      BY <1>0, <2>7, CommitKeeps
    <2>8. CASE Reread(w)
      BY <1>0, <2>8, RereadKeeps
    <2>9. CASE CommitLast(w)
      BY <1>0, <2>9, CommitHolds, ReturnKeeps DEF CommitLast
    <2>10. CASE Fail(w)
      BY <1>0, <2>10, MoveSound, ReturnAlone DEF Fail, UnderWay
    <2>11. CASE RecordFailure(w)
      BY <1>0, <2>11, ReturnAlone DEF RecordFailure
    <2>12. CASE Crash(w)
      BY <1>0, <2>12, ReturnAlone DEF Crash
    <2> QED
      BY <1>1, <2>1, <2>2, <2>3, <2>4, <2>5, <2>6, <2>7, <2>8, <2>9, <2>10, <2>11, <2>12
      DEF PassStep
  <1>2. ASSUME NEW w \in Workers, AdminStep(w) PROVE IInv'
    <2>1. CASE Reconcile(w)
      BY <1>0, <2>1, MoveSound DEF Reconcile, UnderWay
    <2>2. CASE ListMailboxes(w)
      BY <1>0, <2>2, ReadSound DEF ListMailboxes, UnderWay
    <2>3. CASE Apply(w)
      BY <1>0, <2>3, ApplyKeeps
    <2>4. CASE CheckDisabled(w)
      BY <1>0, <2>4, ReadSound DEF CheckDisabled, UnderWay
    <2>5. CASE DeleteMailbox(w)
      BY <1>0, <2>5, DeleteKeeps
    <2>6. CASE UntagItem(w)
      BY <1>0, <2>6, MoveSound DEF UntagItem, UnderWay
    <2> QED BY <1>2, <2>1, <2>2, <2>3, <2>4, <2>5, <2>6 DEF AdminStep
  <1>3. CASE UNCHANGED vars
    <2>1. \A v \in Workers : Untouched(v)
      BY <1>3 DEF vars, Untouched
    <2>2. RowMoves /\ Legible' = Legible
      BY <1>3 DEF vars, RowMoves, Legible
    <2>3. AllSound'
      BY <2>1, <2>2, KeptSound DEF AllSound
    <2>4. RowIsBounded' /\ AllBounded' /\ NothingSkipped'
      BY <1>3 DEF IInv, vars, RowIsBounded, AllBounded, Bounded, NothingSkipped
    <2> QED BY <1>0, <2>3, <2>4 DEF IInv
  <1> QED BY <1>0, <1>1, <1>2, <1>3, ProviderKeeps DEF Next

\* What a pass may rely on holds at every step of every worker, and of the
\* provider and operators around them.
THEOREM Invariant == Spec => []IInv
  BY InitIInv, StepIInv, PTL DEF Spec

\* However many passes, declarations, reconciliations and removals overlap, mail
\* the provider holds and that can be read is stored once the cursor is past it.
THEOREM NothingIsSkipped == Spec => []NothingSkipped
  <1>1. IInv => NothingSkipped
    BY DEF IInv
  <1> QED BY <1>1, Invariant, PTL

-----------------------------------------------------------------------------
(* Counting up, recursion and order. *)

LEMMA SomeLeast ==
  ASSUME NEW B \in SUBSET Nat, B # {}
  PROVE  \E x \in B : \A y \in B : x <= y
  <1> DEFINE R == {ss \in Nat \X Nat : ss[1] < ss[2]}
  <1>1. IsWellFoundedOn(R, Nat)
    BY NatLessThanWellFounded DEF OpToRel
  <1> HIDE DEF R
  <1>2. PICK x \in B : \A y \in B : ~(<<y, x>> \in R)
    BY <1>1, WFMin
  <1>3. \A y \in B : ~(y < x)
    BY <1>2 DEF R
  <1> QED BY <1>2, <1>3

LEMMA CountedUp ==
  ASSUME NEW n \in Nat, NEW P, 0 \in P, \A i \in 0..n : i < n /\ i \in P => i + 1 \in P
  PROVE  0..n \subseteq P
  <1> SUFFICES ASSUME ~(0..n \subseteq P) PROVE FALSE
    OBVIOUS
  <1> DEFINE B == {i \in 0..n : i \notin P}
  <1>1. B \in SUBSET Nat /\ B # {}
    OBVIOUS
  <1>2. PICK x \in B : \A y \in B : x <= y
    BY <1>1, SomeLeast
  <1>3. x # 0 /\ x - 1 \in 0..n /\ x - 1 \notin B
    BY <1>2
  <1> QED BY <1>2, <1>3

Grows(n, M, base, step) == base \in SUBSET M /\ step \in [(1..n) \X SUBSET M -> SUBSET M]
Grown(n, M, base, step) ==
  \E f \in [0..n -> SUBSET M] : f[0] = base /\ \A i \in 1..n : f[i] = step[<<i, f[i-1]>>]

LEMMA Recursion ==
  ASSUME NEW n \in Nat, NEW M, NEW base, NEW step, Grows(n, M, base, step)
  PROVE  Grown(n, M, base, step)
  <1>0. base \in SUBSET M /\ step \in [(1..n) \X SUBSET M -> SUBSET M]
    BY DEF Grows
  <1> DEFINE Is(f, k) == f \in [0..k -> SUBSET M] /\ f[0] = base /\ \A i \in 1..k : f[i] = step[<<i, f[i-1]>>]
             P == {k \in 0..n : \E f : Is(f, k)}
  <1>1. 0 \in P
    <2> DEFINE f == [i \in 0..0 |-> base]
    <2>1. f \in [0..0 -> SUBSET M] /\ f[0] = base
      BY <1>0
    <2>2. 1..0 = {}
      OBVIOUS
    <2> HIDE DEF f
    <2>3. Is(f, 0)
      BY <2>1, <2>2
    <2> QED BY <2>3
  <1>2. ASSUME NEW k \in 0..n, k < n, k \in P PROVE k + 1 \in P
    <2>1. PICK f : Is(f, k)
      BY <1>2
    <2> DEFINE g == [i \in 0..k+1 |-> IF i = k + 1 THEN step[<<k + 1, f[k]>>] ELSE f[i]]
    <2>2. f[k] \in SUBSET M /\ <<k + 1, f[k]>> \in (1..n) \X SUBSET M
      BY <1>2, <2>1
    <2>3. step[<<k + 1, f[k]>>] \in SUBSET M
      BY <1>0, <2>2
    <2>4. g \in [0..k+1 -> SUBSET M] /\ g[0] = base
      BY <1>2, <2>1, <2>3
    <2>5. ASSUME NEW i \in 1..k+1 PROVE g[i] = step[<<i, g[i-1]>>]
      <3>1. CASE i = k + 1
        <4>1. g[i] = step[<<k + 1, f[k]>>] /\ g[i-1] = f[k]
          BY <1>2, <3>1
        <4> QED BY <3>1, <4>1
      <3>2. CASE i \in 1..k
        <4>1. g[i] = f[i] /\ g[i-1] = f[i-1]
          BY <1>2, <3>2
        <4> QED BY <2>1, <3>2, <4>1
      <3> QED BY <1>2, <3>1, <3>2
    <2> HIDE DEF g
    <2>6. Is(g, k + 1)
      BY <2>4, <2>5
    <2> QED BY <1>2, <2>6
  <1> HIDE DEF P
  <1>3. n \in P
    BY <1>1, <1>2, CountedUp
  <1> QED BY <1>3 DEF P, Grown

Descending(s, S) == s \in [1..Cardinality(S) -> S] /\ \A i, j \in 1..Cardinality(S) : i < j => s[i] > s[j]

LEMMA SortedThere ==
  ASSUME NEW S \in SUBSET Messages
  PROVE  \E s : Descending(s, S)
  <1> DEFINE n == Cardinality(Messages)
             P == {k \in 0..n : \A U \in SUBSET Messages : Cardinality(U) = k => \E s : Descending(s, U)}
  <1>1. n \in Nat /\ Messages \subseteq Nat
    BY InboxAssumption, FS_CardinalityType
  <1>2. ASSUME NEW U \in SUBSET Messages PROVE IsFiniteSet(U) /\ Cardinality(U) \in 0..n
    <2>1. IsFiniteSet(U) /\ Cardinality(U) <= n
      BY InboxAssumption, FS_Subset
    <2>2. Cardinality(U) \in Nat
      BY <2>1, FS_CardinalityType
    <2> HIDE DEF n
    <2> QED BY <1>1, <2>1, <2>2
  <1> HIDE DEF n
  <1>3. 0 \in P
    <2>1. ASSUME NEW U \in SUBSET Messages, Cardinality(U) = 0 PROVE Descending([i \in 1..0 |-> 0], U)
      BY <2>1 DEF Descending
    <2> QED BY <1>1, <2>1
  <1>4. ASSUME NEW k \in 0..n, k < n, k \in P PROVE k + 1 \in P
    <2>1. ASSUME NEW U \in SUBSET Messages, Cardinality(U) = k + 1 PROVE \E s : Descending(s, U)
      <3>1. U # {}
        BY <1>1, <1>4, <2>1, FS_EmptySet
      <3>2. PICK x \in U : \A y \in U : x <= y
        BY <1>1, <3>1, SomeLeast
      <3>3. Cardinality(U \ {x}) = k
        BY <1>1, <1>2, <1>4, <2>1, FS_RemoveElement
      <3>4. PICK s : Descending(s, U \ {x})
        BY <1>4, <3>3
      <3> DEFINE t == [i \in 1..k+1 |-> IF i = k + 1 THEN x ELSE s[i]]
      <3>5. \A i \in 1..k : s[i] \in U \ {x}
        BY <3>3, <3>4 DEF Descending
      <3>8. \A i \in 1..k : s[i] \in Nat /\ x \in Nat /\ s[i] > x
        <4>1. U \subseteq Nat /\ x \in Nat
          BY <1>1
        <4>2. \A y \in U : y \in Nat /\ (y # x => y > x)
          BY <3>2, <4>1
        <4> QED BY <3>5, <4>1, <4>2
      <3>9. \A i, j \in 1..k : i < j => s[i] > s[j]
        BY <3>3, <3>4 DEF Descending
      <3>6. ASSUME NEW i \in 1..k+1, NEW j \in 1..k+1, i < j PROVE t[i] > t[j]
        <4>1. CASE j = k + 1
          BY <1>4, <3>6, <3>8, <4>1
        <4>2. CASE j # k + 1
          <5>1. i \in 1..k /\ j \in 1..k
            BY <1>4, <3>6, <4>2
          <5> QED BY <3>6, <3>9, <5>1
        <4> QED BY <4>1, <4>2
      <3>7. t \in [1..k+1 -> U]
        BY <1>1, <3>5
      <3> HIDE DEF t
      <3> QED BY <2>1, <3>6, <3>7 DEF Descending
    <2> QED BY <1>1, <1>4, <2>1
  <1> HIDE DEF P
  <1>5. 0..n \subseteq P
    BY <1>1, <1>3, <1>4, CountedUp
  <1>6. Cardinality(S) \in P
    BY <1>2, <1>5
  <1> QED BY <1>6 DEF P

\* A set of messages in its order: each once.
LEMMA NewestFirstIs ==
  ASSUME NEW S \in SUBSET Messages
  PROVE  /\ NewestFirst(S) \in Seq(Messages) /\ Len(NewestFirst(S)) = Cardinality(S)
         /\ Cardinality(S) \in Nat
         /\ \A i \in 1..Cardinality(S) : NewestFirst(S)[i] \in S
         /\ \A i, j \in 1..Cardinality(S) : i < j => NewestFirst(S)[i] > NewestFirst(S)[j]
         /\ \A m \in S : \E i \in 1..Cardinality(S) : NewestFirst(S)[i] = m
  <1> DEFINE s == NewestFirst(S)
             n == Cardinality(S)
  <1>1. IsFiniteSet(S) /\ n \in Nat /\ Messages \subseteq Nat
    BY InboxAssumption, FS_Subset, FS_CardinalityType
  <1>2. s = CHOOSE t \in [1..n -> S] : \A i, j \in 1..n : i < j => t[i] > t[j]
    BY DEF NewestFirst, Sorted
  <1>3. \E t \in [1..n -> S] : \A i, j \in 1..n : i < j => t[i] > t[j]
    BY SortedThere DEF Descending
  <1>4. s \in [1..n -> S] /\ \A i, j \in 1..n : i < j => s[i] > s[j]
    BY <1>2, <1>3
  <1> HIDE DEF s
  <1>5. s \in Injection(1..n, S)
    <2>1. ASSUME NEW i \in 1..n, NEW j \in 1..n, s[i] = s[j] PROVE i = j
      <3>1. s[i] \in Nat /\ s[j] \in Nat /\ i \in Nat /\ j \in Nat
        <4>1. S \subseteq Nat
          BY <1>1
        <4>2. s[i] \in S /\ s[j] \in S
          BY <1>4
        <4>3. i \in Nat /\ j \in Nat
          BY <1>1
        <4> QED BY <4>1, <4>2, <4>3
      <3>2. ~(s[i] > s[j]) /\ ~(s[j] > s[i])
        BY <2>1, <3>1
      <3> QED BY <1>4, <3>1, <3>2
    <2> QED BY <1>4, <2>1 DEF Injection, IsInjective
  <1>6. Cardinality(1..n) = n
    BY <1>1, FS_Interval
  <1>7. s \in Surjection(1..n, S)
    BY <1>1, <1>5, <1>6, FS_Injection
  <1>8. s \in Seq(Messages) /\ Len(s) = n
    <2>1. s \in [1..n -> Messages] /\ DOMAIN s = 1..n
      BY <1>4
    <2> HIDE DEF n
    <2> QED BY <1>1, <2>1
  <1>9. \A m \in S : \E i \in 1..n : s[i] = m
    BY <1>7 DEF Surjection
  <1> QED BY <1>1, <1>4, <1>8, <1>9 DEF s

-----------------------------------------------------------------------------
(* Conversations. *)

Shares(k, m) == IdentitiesOf[k] \cap IdentitiesOf[m] # {}

Joins(S, m) == IF \E k \in S : Shares(k, m) THEN S \cup {m} ELSE S

\* One pass joins whoever shares a Message-ID with a member, and nobody that a
\* set closed under sharing leaves out.
LEMMA JoinOnceIs ==
  ASSUME NEW members \in SUBSET Messages, NEW s \in Seq(Messages)
  PROVE  /\ JoinOnce(members, s) \in SUBSET Messages
         /\ members \subseteq JoinOnce(members, s)
         /\ \A i \in 1..Len(s) : (\E k \in members : Shares(k, s[i])) => s[i] \in JoinOnce(members, s)
         /\ \A C : /\ members \subseteq C
                   /\ \A i \in 1..Len(s) : (\E k \in C : Shares(k, s[i])) => s[i] \in C
                   => JoinOnce(members, s) \subseteq C
  <1> DEFINE n == Len(s)
             step == [x \in (1..n) \X SUBSET Messages |-> Joins(x[2], s[x[1]])]
             Is(f) == f = [i \in 0..n |-> IF i = 0 THEN members
                             ELSE IF \E k \in f[i-1] : IdentitiesOf[k] \cap IdentitiesOf[s[i]] # {}
                             THEN f[i-1] \cup {s[i]} ELSE f[i-1]]
  <1>1. n \in Nat /\ \A i \in 1..n : s[i] \in Messages
    OBVIOUS
  <1>0. /\ \A i \in 1..n : i - 1 \in 0..n /\ i \in 0..n /\ i # 0
        /\ \A i \in 0..n : i < n => i + 1 \in 1..n /\ (i + 1) - 1 = i
    BY <1>1
  <1> HIDE DEF n
  <1>2. step \in [(1..n) \X SUBSET Messages -> SUBSET Messages]
    BY <1>1 DEF Joins
  <1>3. \A i \in 1..n, S \in SUBSET Messages : step[<<i, S>>] = Joins(S, s[i])
    OBVIOUS
  <1> HIDE DEF step
  <1>4. PICK f \in [0..n -> SUBSET Messages] : f[0] = members /\ \A i \in 1..n : f[i] = step[<<i, f[i-1]>>]
    <2>1. Grows(n, Messages, members, step)
      BY <1>2 DEF Grows
    <2>2. Grown(n, Messages, members, step)
      BY <1>1, <2>1, Recursion
    <2> QED BY <2>2 DEF Grown
  <1>5. \A i \in 1..n : f[i-1] \in SUBSET Messages /\ f[i] = Joins(f[i-1], s[i])
    BY <1>0, <1>3, <1>4
  <1>6. Is(f)
    <2>1. \A i \in 1..n : f[i] = IF \E k \in f[i-1] : IdentitiesOf[k] \cap IdentitiesOf[s[i]] # {}
                                  THEN f[i-1] \cup {s[i]} ELSE f[i-1]
      BY <1>5 DEF Shares, Joins
    <2>2. \A i \in 0..n : i = 0 \/ i \in 1..n
      BY <1>1
    <2>3. \A i \in 0..n : f[i] = IF i = 0 THEN members
                             ELSE IF \E k \in f[i-1] : IdentitiesOf[k] \cap IdentitiesOf[s[i]] # {}
                             THEN f[i-1] \cup {s[i]} ELSE f[i-1]
      BY <1>4, <2>1, <2>2
    <2> QED BY <1>4, <2>3
  <1>7. JoinOnce(members, s) = (CHOOSE g : Is(g))[n]
    BY DEF JoinOnce, n
  <1> DEFINE J == CHOOSE g : Is(g)
  <1>8. Is(J)
    BY <1>6
  <1> HIDE DEF J
  <1>9. J[0] = members /\ \A i \in 1..n : J[i] = Joins(J[i-1], s[i])
    <2>1. \A i \in 0..n : J[i] = IF i = 0 THEN members
                             ELSE IF \E k \in J[i-1] : IdentitiesOf[k] \cap IdentitiesOf[s[i]] # {}
                             THEN J[i-1] \cup {s[i]} ELSE J[i-1]
      BY <1>8
    <2>2. 0 \in 0..n
      BY <1>1
    <2>3. ASSUME NEW i \in 1..n PROVE J[i] = Joins(J[i-1], s[i])
      BY <1>0, <2>1 DEF Shares, Joins
    <2> QED BY <2>1, <2>2, <2>3
  <1> HIDE DEF Is
  <1>10. \A i \in 0..n : J[i] \in SUBSET Messages
    <2> DEFINE P == {i \in 0..n : J[i] \in SUBSET Messages}
    <2>1. 0 \in P
      BY <1>1, <1>9
    <2>2. ASSUME NEW i \in 0..n, i < n, i \in P PROVE i + 1 \in P
      <3>1. i + 1 \in 1..n /\ i + 1 \in 0..n /\ J[i+1] = Joins(J[i], s[i+1])
        BY <1>0, <1>9, <2>2
      <3> QED BY <1>1, <2>2, <3>1 DEF Joins
    <2> HIDE DEF P
    <2>3. 0..n \subseteq P
      BY <1>1, <2>1, <2>2, CountedUp
    <2> QED BY <2>3 DEF P
  <1>11. \A i \in 0..n : /\ members \subseteq J[i]
                         /\ \A j \in 1..n : j <= i /\ (\E k \in members : Shares(k, s[j])) => s[j] \in J[i]
    <2> DEFINE P == {i \in 0..n : /\ members \subseteq J[i]
                                  /\ \A j \in 1..n : j <= i /\ (\E k \in members : Shares(k, s[j])) => s[j] \in J[i]}
    <2>1. 0 \in P
      BY <1>1, <1>9
    <2>2. ASSUME NEW i \in 0..n, i < n, i \in P PROVE i + 1 \in P
      <3>1. i + 1 \in 1..n /\ J[i+1] = Joins(J[i], s[i+1])
        BY <1>0, <1>9, <2>2
      <3>2. J[i] \subseteq J[i+1] /\ ((\E k \in J[i] : Shares(k, s[i+1])) => s[i+1] \in J[i+1])
        BY <3>1 DEF Joins
      <3>3. \A j \in 1..n : j <= i + 1 => j <= i \/ j = i + 1
        BY <1>1
      <3> QED BY <2>2, <3>1, <3>2, <3>3
    <2> HIDE DEF P
    <2>3. 0..n \subseteq P
      BY <1>1, <2>1, <2>2, CountedUp
    <2> QED BY <2>3 DEF P
  <1>12. ASSUME NEW C, members \subseteq C, \A i \in 1..n : (\E k \in C : Shares(k, s[i])) => s[i] \in C
         PROVE  J[n] \subseteq C
    <2> DEFINE P == {i \in 0..n : J[i] \subseteq C}
    <2>1. 0 \in P
      BY <1>1, <1>9, <1>12
    <2>2. ASSUME NEW i \in 0..n, i < n, i \in P PROVE i + 1 \in P
      <3>1. i + 1 \in 1..n /\ J[i+1] = Joins(J[i], s[i+1])
        BY <1>0, <1>9, <2>2
      <3> QED BY <1>0, <1>12, <2>2, <3>1 DEF Joins
    <2> HIDE DEF P
    <2>3. 0..n \subseteq P
      BY <1>1, <2>1, <2>2, CountedUp
    <2> QED BY <1>1, <2>3 DEF P
  <1>13. n \in 0..n /\ \A j \in 1..n : j <= n
    BY <1>1
  <1>14. JoinOnce(members, s) = J[n]
    BY <1>7 DEF J
  <1> QED BY <1>10, <1>11, <1>12, <1>13, <1>14 DEF n

\* What a pass leaves as it was is closed under sharing.
LEMMA SettledIsClosed ==
  ASSUME NEW m \in Stored, NEW S \in SUBSET Kin(m), m \in S, JoinOnce(S, NewestFirst(Kin(m))) = S
  PROVE  S \in Closed(m)
  <1> DEFINE s == NewestFirst(Kin(m))
  <1>1. Kin(m) \in SUBSET Messages
    BY DEF Kin, Stored
  <1>2. /\ s \in Seq(Messages)
        /\ \A y \in Kin(m) : \E i \in 1..Len(s) : s[i] = y
    BY <1>1, NewestFirstIs
  <1>3. \A i \in 1..Len(s) : (\E k \in S : Shares(k, s[i])) => s[i] \in S
    <2>1. S \in SUBSET Messages
      BY <1>1
    <2> QED BY <1>2, <2>1, JoinOnceIs
  <1> HIDE DEF s
  <1>4. \A x \in S, y \in Kin(m) : Shares(x, y) => y \in S
    BY <1>2, <1>3
  <1> QED BY <1>4 DEF Closed, Shares

\* A pass stays within the mailbox, and within every closed set it began in.
LEMMA PassStays ==
  ASSUME NEW m \in Stored, NEW S \in SUBSET Kin(m)
  PROVE  LET J == JoinOnce(S, NewestFirst(Kin(m)))
         IN S \subseteq J /\ J \subseteq Kin(m) /\ \A C \in Closed(m) : S \subseteq C => J \subseteq C
  <1> DEFINE s == NewestFirst(Kin(m))
  <1>1. Kin(m) \in SUBSET Messages /\ S \in SUBSET Messages
    BY DEF Kin, Stored
  <1>2. /\ s \in Seq(Messages)
        /\ \A i \in 1..Len(s) : s[i] \in Kin(m)
    BY <1>1, NewestFirstIs
  <1> HIDE DEF s
  <1>3. S \subseteq JoinOnce(S, s)
    BY <1>1, <1>2, JoinOnceIs
  <1>4. ASSUME NEW C, S \subseteq C, \A i \in 1..Len(s) : (\E k \in C : Shares(k, s[i])) => s[i] \in C
        PROVE  JoinOnce(S, s) \subseteq C
    BY <1>1, <1>2, <1>4, JoinOnceIs
  <1>5. JoinOnce(S, s) \subseteq Kin(m)
    BY <1>2, <1>4
  <1>6. ASSUME NEW C \in Closed(m), S \subseteq C PROVE JoinOnce(S, s) \subseteq C
    <2>1. \A x \in C, y \in Kin(m) : Shares(x, y) => y \in C
      BY DEF Closed, Shares
    <2> QED BY <1>2, <1>4, <1>6, <2>1
  <1> QED BY <1>3, <1>5, <1>6 DEF s

\* The loop of message_thread as a row of sets, each a pass over the last.
LEMMA ThreadGrows ==
  ASSUME NEW m \in Stored
  PROVE  LET n == Cardinality(Kin(m)) IN
         \E J : /\ n \in Nat /\ J[0] = {m} /\ Thread(m) = J[n]
                /\ \A i \in 1..n : J[i] = JoinOnce(J[i-1], NewestFirst(Kin(m)))
  <1> DEFINE s == NewestFirst(Kin(m))
             n == Cardinality(Kin(m))
             step == [x \in (1..n) \X SUBSET Messages |-> JoinOnce(x[2], s)]
             Is(f) == f = [i \in 0..Len(s) |-> IF i = 0 THEN {m} ELSE JoinOnce(f[i-1], s)]
  <1>1. Kin(m) \in SUBSET Messages /\ {m} \in SUBSET Messages
    BY DEF Kin, Stored
  <1>2. s \in Seq(Messages) /\ Len(s) = n /\ n \in Nat
    BY <1>1, NewestFirstIs
  <1>3. Thread(m) = (CHOOSE g : Is(g))[Len(s)]
    BY DEF Thread
  <1> HIDE DEF s, n
  <1>4. \A S \in SUBSET Messages : JoinOnce(S, s) \in SUBSET Messages
    BY <1>2, JoinOnceIs
  <1>5. step \in [(1..n) \X SUBSET Messages -> SUBSET Messages]
    BY <1>4
  <1>6. \A i \in 1..n, S \in SUBSET Messages : step[<<i, S>>] = JoinOnce(S, s)
    OBVIOUS
  <1> HIDE DEF step
  <1>7. Grown(n, Messages, {m}, step)
    BY <1>1, <1>2, <1>5, Recursion DEF Grows
  <1>8. PICK f \in [0..n -> SUBSET Messages] : f[0] = {m} /\ \A i \in 1..n : f[i] = step[<<i, f[i-1]>>]
    BY <1>7 DEF Grown
  <1>9. /\ \A i \in 1..n : i - 1 \in 0..n /\ i \in 0..n /\ i # 0
        /\ \A i \in 0..n : i = 0 \/ i \in 1..n
        /\ 0 \in 0..n
    BY <1>2
  <1>10. \A i \in 1..n : f[i] = JoinOnce(f[i-1], s)
    BY <1>6, <1>8, <1>9
  <1>11. \A i \in 0..n : f[i] = IF i = 0 THEN {m} ELSE JoinOnce(f[i-1], s)
    BY <1>8, <1>9, <1>10
  <1>12. Is(f)
    BY <1>2, <1>8, <1>11
  <1> DEFINE J == CHOOSE g : Is(g)
  <1>13. Is(J)
    BY <1>12
  <1> HIDE DEF J
  <1>14. \A i \in 0..n : J[i] = IF i = 0 THEN {m} ELSE JoinOnce(J[i-1], s)
    BY <1>2, <1>13
  <1>15. J[0] = {m} /\ \A i \in 1..n : J[i] = JoinOnce(J[i-1], s)
    BY <1>9, <1>14
  <1>16. Thread(m) = J[n]
    BY <1>2, <1>3 DEF J
  <1> QED BY <1>2, <1>15, <1>16 DEF s, n

\* As many passes as there are messages are enough: each adds one at least, or
\* nothing is left to add.
LEMMA ThreadIs ==
  ASSUME NEW m \in Stored
  PROVE  Thread(m) = ConversationOf(m)
  <1> DEFINE n == Cardinality(Kin(m))
             s == NewestFirst(Kin(m))
  <1>1. PICK J : /\ n \in Nat /\ J[0] = {m} /\ Thread(m) = J[n]
                 /\ \A i \in 1..n : J[i] = JoinOnce(J[i-1], s)
    BY ThreadGrows
  <1>2. IsFiniteSet(Kin(m)) /\ m \in Kin(m)
    <2>1. Kin(m) \in SUBSET Messages /\ m \in Kin(m)
      BY DEF Kin, Stored
    <2> QED BY <2>1, InboxAssumption, FS_Subset
  <1> DEFINE Enough(i) == i + 1 <= Cardinality(J[i]) \/ JoinOnce(J[i], s) = J[i]
             P == {i \in 0..n : /\ m \in J[i] /\ J[i] \subseteq Kin(m) /\ Enough(i)
                                /\ \A C \in Closed(m) : J[i] \subseteq C}
  <1>3. 0 \in P
    <2>1. J[0] = {m} /\ Cardinality(J[0]) = 1
      BY <1>1, FS_Singleton
    <2>2. \A C \in Closed(m) : J[0] \subseteq C
      BY <2>1 DEF Closed
    <2>3. Enough(0)
      BY <2>1
    <2>4. 0 \in 0..n /\ m \in J[0] /\ J[0] \subseteq Kin(m)
      BY <1>1, <1>2, <2>1
    <2> HIDE DEF Enough
    <2> QED BY <2>2, <2>3, <2>4
  <1>4. ASSUME NEW i \in 0..n, i < n, i \in P PROVE i + 1 \in P
    <2>1. i + 1 \in 1..n /\ i + 1 \in 0..n /\ (i + 1) - 1 = i
      BY <1>1, <1>4
    <2>2. J[i+1] = JoinOnce(J[i], s)
      BY <1>1, <2>1
    <2>3. J[i] \subseteq J[i+1] /\ J[i+1] \subseteq Kin(m) /\ \A C \in Closed(m) : J[i+1] \subseteq C
      BY <1>4, <2>2, PassStays
    <2>4. Enough(i+1)
      <3>1. CASE JoinOnce(J[i], s) = J[i]
        BY <2>2, <3>1
      <3>2. CASE JoinOnce(J[i], s) # J[i]
        <4>1. IsFiniteSet(J[i+1]) /\ IsFiniteSet(J[i])
          BY <1>2, <2>3, FS_Subset
        <4>2. Cardinality(J[i]) \in Nat /\ Cardinality(J[i+1]) \in Nat /\ Cardinality(J[i]) <= Cardinality(J[i+1])
              /\ Cardinality(J[i]) # Cardinality(J[i+1])
          BY <2>2, <2>3, <3>2, <4>1, FS_Subset, FS_CardinalityType
        <4>3. i + 1 <= Cardinality(J[i])
          BY <1>4, <3>2
        <4> HIDE DEF s
        <4> QED BY <1>1, <4>2, <4>3
      <3> QED BY <3>1, <3>2
    <2> QED BY <1>4, <2>1, <2>3, <2>4
  <1> HIDE DEF P
  <1>5. n \in P
    <2>1. 0..n \subseteq P
      BY <1>1, <1>3, <1>4, CountedUp
    <2> QED BY <1>1, <2>1
  <1>6. m \in J[n] /\ J[n] \subseteq Kin(m) /\ Enough(n) /\ \A C \in Closed(m) : J[n] \subseteq C
    BY <1>5 DEF P
  <1>7. JoinOnce(J[n], s) = J[n]
    <2>1. Cardinality(J[n]) <= n /\ Cardinality(J[n]) \in Nat
      BY <1>2, <1>6, FS_Subset, FS_CardinalityType
    <2> HIDE DEF s, n
    <2> QED BY <1>1, <1>6, <2>1
  <1>8. J[n] \in Closed(m)
    BY <1>6, <1>7, SettledIsClosed
  <1>9. J[n] = {x \in Kin(m) : \A C \in Closed(m) : x \in C}
    BY <1>6, <1>8
  <1> QED BY <1>1, <1>9 DEF ConversationOf

\* message_thread's loop ends at the conversation: the least set of messages of
\* the mailbox no Message-ID of which one outside it shares, whatever the
\* messages are, and whatever their number and their order.
THEOREM ThreadFindsAll == InboxSpec => []ThreadIsTheConversation
  <1>1. ThreadIsTheConversation
    BY ThreadIs DEF ThreadIsTheConversation
  <1> QED BY <1>1, PTL

-----------------------------------------------------------------------------
(* Listings. *)

\* No limit is everything; and a page and what is after it are everything.
LEMMA CutIs ==
  ASSUME NEW s \in Seq(Messages)
  PROVE  /\ Cut(s, 0, 0) = s
         /\ \A limit \in Nat \ {0} : Cut(s, limit, 0) \o Cut(s, 0, limit) = s
  <1>1. Len(s) \in Nat /\ SubSeq(s, 1, Len(s)) = s
    BY LenProperties, SubSeqFull
  <1>2. Cut(s, 0, 0) = s
    BY <1>1 DEF Cut
  <1>3. ASSUME NEW limit \in Nat \ {0} PROVE Cut(s, limit, 0) \o Cut(s, 0, limit) = s
    <2>1. Cut(s, 0, limit) = SubSeq(s, limit + 1, Len(s))
      BY DEF Cut
    <2>2. CASE limit > Len(s)
      <3>1. Cut(s, limit, 0) = s
        BY <1>1, <2>2 DEF Cut
      <3>2. limit + 1 \in Int /\ Len(s) \in Int /\ Len(s) < limit + 1
        BY <1>1, <2>2
      <3>3. Cut(s, 0, limit) = <<>>
        BY <2>1, <3>2, SubSeqEmpty
      <3> QED BY <3>1, <3>3, ConcatEmptySeq
    <2>3. CASE ~(limit > Len(s))
      <3>0. 0 + limit = limit /\ 0 + 1 = 1 /\ limit # 0 /\ ~(0 + limit > Len(s))
        BY <1>1, <2>3
      <3>1. Cut(s, limit, 0) = SubSeq(s, 1, limit)
        BY <3>0 DEF Cut
      <3>2. 1 \in 1 .. Len(s)+1 /\ limit \in 1-1 .. Len(s) /\ Len(s) \in limit .. Len(s)
        BY <1>1, <2>3
      <3>3. SubSeq(s, 1, limit) \o SubSeq(s, limit+1, Len(s)) = SubSeq(s, 1, Len(s))
        BY <3>2, ConcatAdjacentSubSeq
      <3> QED BY <1>1, <2>1, <3>1, <3>3
    <2> QED BY <2>2, <2>3
  <1> QED BY <1>2, <1>3

\* The order of a listing: everyone once, up or down.
InOrder(s, S, up) ==
  /\ s \in Seq(Messages) /\ ToSet(s) = S
  /\ \A i, j \in 1..Len(s) : i < j => IF up THEN s[i] < s[j] ELSE s[i] > s[j]

LEMMA OrderIs ==
  ASSUME NEW S \in SUBSET Messages
  PROVE  InOrder(NewestFirst(S), S, FALSE) /\ InOrder(OldestFirst(S), S, TRUE)
  <1> DEFINE s == NewestFirst(S)
             n == Cardinality(S)
             t == OldestFirst(S)
  <1>1. /\ s \in Seq(Messages) /\ Len(s) = n /\ n \in Nat
        /\ \A i \in 1..n : s[i] \in S
        /\ \A i, j \in 1..n : i < j => s[i] > s[j]
        /\ \A m \in S : \E i \in 1..n : s[i] = m
    BY NewestFirstIs
  <1>2. t = [i \in 1..n |-> s[(n - i) + 1]]
    BY <1>1 DEF OldestFirst, Reverse
  <1> HIDE DEF s, n, t
  <1>3. DOMAIN s = 1..n
    BY <1>1
  <1>4. InOrder(s, S, FALSE)
    <2>1. ToSet(s) = S
      BY <1>1, <1>3 DEF ToSet
    <2> QED BY <1>1, <2>1 DEF InOrder
  <1>5. \A i \in 1..n : (n - i) + 1 \in 1..n /\ (n - ((n - i) + 1)) + 1 = i
    BY <1>1
  <1>6. t \in [1..n -> Messages] /\ DOMAIN t = 1..n
    BY <1>1, <1>2, <1>5
  <1>7. t \in Seq(Messages) /\ Len(t) = n
    BY <1>1, <1>6
  <1>8. ToSet(t) = S
    <2>1. \A i \in 1..n : t[i] \in S
      BY <1>1, <1>2, <1>5
    <2>2. ASSUME NEW m \in S PROVE \E i \in 1..n : t[i] = m
      <3>1. PICK i \in 1..n : s[i] = m
        BY <1>1
      <3>2. t[(n - i) + 1] = m /\ (n - i) + 1 \in 1..n
        BY <1>2, <1>5, <3>1
      <3> QED BY <3>2
    <2> QED BY <1>6, <2>1, <2>2 DEF ToSet
  <1>9. ASSUME NEW i \in 1..n, NEW j \in 1..n, i < j PROVE t[i] < t[j]
    <2>1. t[i] = s[(n - i) + 1] /\ t[j] = s[(n - j) + 1] /\ (n - j) + 1 < (n - i) + 1
      BY <1>1, <1>2, <1>9
    <2>2. s[(n - j) + 1] > s[(n - i) + 1]
      BY <1>1, <1>5, <2>1
    <2>3. s[(n - j) + 1] \in Nat /\ s[(n - i) + 1] \in Nat
      <3>1. S \subseteq Nat
        BY InboxAssumption
      <3> QED BY <1>1, <1>5, <3>1
    <2> QED BY <2>1, <2>2, <2>3
  <1>10. InOrder(t, S, TRUE)
    BY <1>7, <1>8, <1>9 DEF InOrder
  <1> QED BY <1>4, <1>10 DEF s, t

Listed(f, aside) ==
  {m \in InMailbox(f.mailbox) : Quiet(f, aside) \/ Lists(f, aside, m)}

LEMMA TurnIs ==
  ASSUME NEW f \in FilterRecords, NEW S \in SUBSET Messages
  PROVE  InOrder(InTurn(f, S), S, f.oldest_first)
  <1>1. f.oldest_first \in BOOLEAN
    BY DEF FilterRecords
  <1>2. CASE f.oldest_first
    BY <1>2, OrderIs DEF InTurn
  <1>3. CASE ~f.oldest_first
    BY <1>1, <1>3, OrderIs DEF InTurn
  <1> QED BY <1>2, <1>3

\* Both ways of a listing are an order of what it lists.
LEMMA ListIs ==
  ASSUME NEW f \in FilterRecords, NEW aside
  PROVE  \E s : /\ InOrder(s, Listed(f, aside), f.oldest_first)
                /\ \A limit, offset : ListMessages(f, aside, limit, offset) = Cut(s, limit, offset)
  <1> DEFINE kept == {m \in InMailbox(f.mailbox) : Lists(f, aside, m)}
  <1>1. InMailbox(f.mailbox) \in SUBSET Messages /\ kept \in SUBSET Messages
    BY DEF InMailbox, Stored
  <1>2. f.oldest_first \in BOOLEAN
    BY DEF FilterRecords
  <1>3. CASE Quiet(f, aside)
    <2>1. Listed(f, aside) = InMailbox(f.mailbox) /\ ~f.oldest_first
      BY <1>3 DEF Listed, Quiet
    <2>2. InOrder(NewestFirst(InMailbox(f.mailbox)), Listed(f, aside), f.oldest_first)
      BY <1>1, <1>2, <2>1, OrderIs
    <2> QED BY <1>3, <2>2 DEF ListMessages
  <1>4. CASE ~Quiet(f, aside)
    <2>1. Listed(f, aside) = kept
      BY <1>4 DEF Listed
    <2>2. InOrder(InTurn(f, kept), Listed(f, aside), f.oldest_first)
      BY <1>1, <2>1, TurnIs
    <2> QED BY <1>4, <2>2 DEF ListMessages
  <1> QED BY <1>3, <1>4

LEMMA AsideIs ==
  ASSUME NEW f \in FilterRecords
  PROVE  /\ Aside(f).blocked = IF f.include_blocked THEN {} ELSE blocked
         /\ Aside(f).now = now
         /\ Aside(f).snoozing = (~f.include_snoozed /\ ~f.snoozed /\ \E m \in Stored : snoozed[m] > now)
         /\ Aside(f).answered = IF f.unanswered \/ f.answered THEN answered ELSE {}
         /\ \A b \in Mailboxes :
              Aside(f).muted[b] = IF f.include_muted /\ ~f.muted THEN {} ELSE muted[b]
  BY DEF Aside, blocked_senders, any_snoozed, IsSnoozed, answered_messages, muted_identities

\* What is listed should be, whichever way the listing goes.
LEMMA ListedIsShown ==
  ASSUME NEW f \in FilterRecords, ~Refused(f)
  PROVE  Listed(f, Aside(f)) = {m \in Stored : Shown(f, m)}
  <1> DEFINE aside == Aside(f)
  <1>1. /\ f.muted \in BOOLEAN /\ f.answered \in BOOLEAN /\ f.unanswered \in BOOLEAN
        /\ f.untagged \in BOOLEAN /\ f.noted \in BOOLEAN
    BY DEF FilterRecords
  <1>2. \A m \in Stored : m \in Messages /\ MailboxOf[m] \in Mailboxes
    BY DEF Stored, Mailboxes
  <1>3. Listed(f, aside) = {m \in Stored : f.mailbox \in {Unset, MailboxOf[m]} /\ (Quiet(f, aside) \/ Lists(f, aside, m))}
    BY DEF Listed, InMailbox
  <1>4. ~(f.answered /\ f.unanswered)
    BY DEF Refused
  <1> HIDE DEF aside
  <1>5. ASSUME NEW m \in Stored PROVE Shown(f, m) <=> f.mailbox \in {Unset, MailboxOf[m]} /\ (Quiet(f, aside) \/ Lists(f, aside, m))
    <2> DEFINE mine == IdentitiesOf[m] \cap muted[MailboxOf[m]] # {}
               late == snoozed[m] > now
    <2>1. /\ IsBlocked(m, aside.blocked) <=> ~f.include_blocked /\ \E e \in blocked : SenderOf[m] \in Covers[e]
          /\ aside.snoozing /\ IsSnoozed(m, aside.now) <=> ~f.include_snoozed /\ ~f.snoozed /\ late
          /\ IsMuted(m, aside.muted) <=> ~(f.include_muted /\ ~f.muted) /\ mine
          /\ IsSnoozed(m, aside.now) <=> late
          /\ f.answered \/ f.unanswered => (m \in aside.answered <=> m \in answered)
      BY <1>2, AsideIs DEF IsBlocked, IsSnoozed, IsMuted, aside
    <2>2. ~Narrows(f) => Keeps(f, m)
      BY DEF Narrows, Keeps
    <2>3. Lists(f, aside, m) <=>
            /\ ~(~f.include_blocked /\ \E e \in blocked : SenderOf[m] \in Covers[e])
            /\ ~(~f.include_snoozed /\ ~f.snoozed /\ late)
            /\ (~(f.include_muted /\ ~f.muted) /\ mine) <=> f.muted
            /\ (f.answered \/ f.unanswered) => (m \in answered <=> f.answered)
            /\ f.snoozed => late
            /\ Keeps(f, m)
      <3>1. (IsMuted(m, aside.muted) = f.muted) <=> ((~(f.include_muted /\ ~f.muted) /\ mine) <=> f.muted)
        BY <1>1, <2>1 DEF IsMuted
      <3>2. ((m \in aside.answered) = f.answered) <=> (m \in aside.answered <=> f.answered)
        BY <1>1
      <3>3. (Narrows(f) => Keeps(f, m)) <=> Keeps(f, m)
        BY <2>2 DEF Narrows, Keeps
      <3> HIDE DEF mine, late
      <3> QED BY <2>1, <3>1, <3>2, <3>3 DEF Lists
    <2>4. Lists(f, aside, m) /\ f.mailbox \in {Unset, MailboxOf[m]} <=> Shown(f, m)
      BY <1>1, <1>4, <2>3 DEF Shown
    <2>5. Quiet(f, aside) => Lists(f, aside, m)
      BY <1>1, <1>2, <2>1 DEF Quiet, Lists, IsBlocked, IsMuted
    <2> QED BY <2>4, <2>5
  <1> QED BY <1>3, <1>5 DEF aside

\* A listing shows what is asked for, each message once and in order, whether
\* the database cuts its page or the service does, and its pages make the whole.
THEOREM ListingStands == InboxSpec => []ListingIsWhatIsAsked
  <1>1. ListingIsWhatIsAsked
    <2> SUFFICES ASSUME NEW f \in Filters, ~Refused(f)
                 PROVE  LET all == ListMessages(f, Aside(f), 0, 0)
                        IN /\ ToSet(all) = {m \in Stored : Shown(f, m)}
                           /\ \A i, j \in 1..Len(all) : i < j => IF f.oldest_first THEN all[i] < all[j] ELSE all[i] > all[j]
                           /\ all = ListMessages(f, Aside(f), PageSize, 0) \o ListMessages(f, Aside(f), 0, PageSize)
      BY DEF ListingIsWhatIsAsked
    <2>1. f \in FilterRecords /\ PageSize \in Nat \ {0}
      BY InboxAssumption
    <2>2. PICK s : /\ InOrder(s, Listed(f, Aside(f)), f.oldest_first)
                   /\ \A limit, offset : ListMessages(f, Aside(f), limit, offset) = Cut(s, limit, offset)
      BY <2>1, ListIs
    <2>3. ListMessages(f, Aside(f), 0, 0) = s
      BY <2>2, CutIs DEF InOrder
    <2>4. s = ListMessages(f, Aside(f), PageSize, 0) \o ListMessages(f, Aside(f), 0, PageSize)
      <3>1. s \in Seq(Messages)
        BY <2>2 DEF InOrder
      <3>2. Cut(s, PageSize, 0) \o Cut(s, 0, PageSize) = s
        BY <2>1, <3>1, CutIs
      <3>3. /\ ListMessages(f, Aside(f), PageSize, 0) = Cut(s, PageSize, 0)
            /\ ListMessages(f, Aside(f), 0, PageSize) = Cut(s, 0, PageSize)
        BY <2>2
      <3> QED BY <3>2, <3>3
    <2>5. Listed(f, Aside(f)) = {m \in Stored : Shown(f, m)}
      BY <2>1, ListedIsShown
    <2> QED BY <2>2, <2>3, <2>4, <2>5 DEF InOrder
  <1> QED BY <1>1, PTL

-----------------------------------------------------------------------------
(* What a request has under way. *)

PlainWalks == [at : {"each"}, change : Changes, left : Seq(Messages), listed : {FALSE}]
ListedWalks ==
  [at : {"each", "conversation"}, change : Changes, left : Seq(Messages), listed : {TRUE},
   muted : Mutes, handled : SUBSET Messages]
Listings == [at : {"list"}, change : Changes, filters : FilterRecords, aside : Asides, muted : Mutes]
Mutings ==
  [at : {"mute"}, next : Walks, mailbox : Mailboxes, identities : SUBSET Identities,
   conversation : SUBSET Identities]
Appends == [at : {"append"}, message : Messages, body : SUBSET (1..MaxAsked)]
Matchings == [at : {"match"}, bodies : SUBSET BodyRecords]
Givings == [at : {"give"}, tagged : SUBSET (Messages \X Tags)]
Copyings == [at : {"copy"}, from : Tags, to : Tags]
Renamings == [at : {"rename"}, from : Tags, to : Tags, copied : SUBSET Messages]
Untaggings == [at : {"untag"}, tag : Tags]
ViewCopyings == [at : {"copyview"}, name : ViewNames, view : ViewRecords]
Blockings == [at : {"block"}, left : SUBSET Entries]

LEMMA JobsAre ==
  Jobs = {NoJob} \cup PlainWalks \cup ListedWalks \cup Listings \cup Mutings \cup Appends \cup Matchings
         \cup Givings \cup Copyings \cup Renamings \cup Untaggings \cup ViewCopyings \cup Blockings
  <1>1. Walks = PlainWalks \cup ListedWalks
    BY DEF Walks, PlainWalks, ListedWalks
  <1>2. Jobs = {NoJob} \cup Walks \cup Listings \cup Mutings \cup Appends \cup (Matchings
         \cup Givings) \cup Copyings \cup (Renamings \cup Untaggings) \cup (ViewCopyings \cup Blockings)
    BY DEF Jobs, Listings, Mutings, Appends, Matchings, Givings, Copyings, Renamings, Untaggings,
           ViewCopyings, Blockings
  <1> QED BY <1>1, <1>2

LEMMA KindsAre ==
  /\ NoJob.at = "idle" /\ \A j \in PlainWalks : j.at = "each"
  /\ \A j \in ListedWalks : j.at \in {"each", "conversation"}
  /\ \A j \in Listings : j.at = "list"
  /\ \A j \in Mutings : j.at = "mute"
  /\ \A j \in Appends : j.at = "append"
  /\ \A j \in Matchings : j.at = "match"
  /\ \A j \in Givings : j.at = "give"
  /\ \A j \in Copyings : j.at = "copy"
  /\ \A j \in Renamings : j.at = "rename"
  /\ \A j \in Untaggings : j.at = "untag"
  /\ \A j \in ViewCopyings : j.at = "copyview"
  /\ \A j \in Blockings : j.at = "block"
  BY DEF NoJob, PlainWalks, ListedWalks, Listings, Mutings, Appends, Matchings, Givings, Copyings, Renamings, Untaggings,
         ViewCopyings, Blockings

LEMMA JobIs ==
  ASSUME NEW j \in Jobs
  PROVE  /\ j.at = "idle" => j = NoJob
         /\ j.at \in {"each", "conversation"} => j \in Walks
         /\ j.at = "list" => j \in Listings
         /\ j.at = "mute" => j \in Mutings
         /\ j.at = "append" => j \in Appends
         /\ j.at = "match" => j \in Matchings
         /\ j.at = "give" => j \in Givings
         /\ j.at = "copy" => j \in Copyings
         /\ j.at = "rename" => j \in Renamings
         /\ j.at = "untag" => j \in Untaggings
         /\ j.at = "copyview" => j \in ViewCopyings
         /\ j.at = "block" => j \in Blockings
  <1>1. Walks = PlainWalks \cup ListedWalks
    BY DEF Walks, PlainWalks, ListedWalks
  <1>2. \/ j = NoJob \/ j \in Walks \/ j \in Listings \/ j \in Mutings \/ j \in Appends \/ j \in Matchings
        \/ j \in Givings \/ j \in Copyings \/ j \in Renamings \/ j \in Untaggings \/ j \in ViewCopyings
        \/ j \in Blockings
    BY <1>1, JobsAre
  <1>3. j \in Walks => j.at \in {"each", "conversation"}
    BY <1>1, KindsAre
  <1> QED BY <1>2, <1>3, KindsAre

\* Going through a listing.
LEMMA WalkIs ==
  ASSUME NEW w \in Walks
  PROVE  /\ w.at \in {"each", "conversation"} /\ w.change \in Changes /\ w.left \in Seq(Messages)
         /\ w.listed \in BOOLEAN
         /\ w.left # <<>> =>
              /\ Head(w.left) \in Messages
              /\ [w EXCEPT !.left = Tail(@)] \in Walks /\ [w EXCEPT !.left = Tail(@)].at = w.at
              /\ [w EXCEPT !.at = "each", !.left = Tail(@)] \in Walks
              /\ [w EXCEPT !.at = "each", !.left = Tail(@)].at = "each"
         /\ w.listed =>
              /\ w.muted \in Mutes
              /\ \A H \in SUBSET Messages :
                   /\ [w EXCEPT !.at = "conversation", !.handled = @ \cup H] \in Walks
                   /\ [w EXCEPT !.at = "conversation", !.handled = @ \cup H].left = w.left
  <1>1. Walks = PlainWalks \cup ListedWalks
    BY DEF Walks, PlainWalks, ListedWalks
  <1>2. \A s \in Seq(Messages) : s # <<>> => Head(s) \in Messages /\ Tail(s) \in Seq(Messages)
    BY HeadTailProperties
  <1>3. CASE w \in PlainWalks
    <2>1. w.at = "each" /\ w.change \in Changes /\ w.left \in Seq(Messages) /\ w.listed = FALSE
      BY <1>3 DEF PlainWalks
    <2>2. ASSUME NEW s \in Seq(Messages)
          PROVE  /\ [w EXCEPT !.left = s] \in PlainWalks /\ [w EXCEPT !.left = s].at = w.at
                 /\ [w EXCEPT !.at = "each", !.left = s] \in PlainWalks
                 /\ [w EXCEPT !.at = "each", !.left = s].at = "each"
      BY <1>3 DEF PlainWalks
    <2> QED BY <1>1, <1>2, <2>1, <2>2
  <1>4. CASE w \in ListedWalks
    <2>1. /\ w.at \in {"each", "conversation"} /\ w.change \in Changes /\ w.left \in Seq(Messages) /\ w.listed = TRUE
          /\ w.muted \in Mutes /\ w.handled \in SUBSET Messages
      BY <1>4 DEF ListedWalks
    <2>2. ASSUME NEW s \in Seq(Messages)
          PROVE  /\ [w EXCEPT !.left = s] \in ListedWalks /\ [w EXCEPT !.left = s].at = w.at
                 /\ [w EXCEPT !.at = "each", !.left = s] \in ListedWalks
                 /\ [w EXCEPT !.at = "each", !.left = s].at = "each"
      BY <1>4 DEF ListedWalks
    <2>3. ASSUME NEW H \in SUBSET Messages
          PROVE  /\ [w EXCEPT !.at = "conversation", !.handled = @ \cup H] \in ListedWalks
                 /\ [w EXCEPT !.at = "conversation", !.handled = @ \cup H].left = w.left
      BY <1>4, <2>1 DEF ListedWalks
    <2> QED BY <1>1, <1>2, <2>1, <2>2, <2>3
  <1> QED BY <1>1, <1>3, <1>4

-----------------------------------------------------------------------------
(* The invariant. *)

Unrefused(f) == ~f.untagged \/ f.tag = Unset

\* A walk reads the conversation of a message it has left; a rename copies to
\* stored messages, which no deletion takes meanwhile; a view that is copied was
\* not refused when it was saved; and what a mute is to mute is all its
\* conversation carried.
JobFits(j) ==
  /\ j.at = "rename" => j.copied \subseteq Stored
  /\ j.at = "copyview" => Unrefused(j.view.filters)
  /\ j.at = "mute" => j.next.at = "each" /\ j.conversation \subseteq j.identities
  /\ j.at = "conversation" => j.left # <<>>

Bodies(rows, b) ==
  {rows[r].body : r \in {s \in RuleIds : rows[s] # NoRule /\ ~rows[s].paused /\ rows[s].body.mailbox \in {Unset, b}}}

\* What an import is to store nobody sees yet, and it goes by the rules it read.
ImportFits ==
  importing.open =>
    /\ held[importing.message] = "coming"
    /\ importing.bodies = Bodies(importing.rules, MailboxOf[importing.message])

InboxIInv ==
  /\ InboxTypeOK
  /\ \A o \in Operators : JobFits(job[o])
  /\ ImportFits
  /\ \A b \in Mailboxes : silenced[b] \subseteq muted[b]

-----------------------------------------------------------------------------
(* What is asked for. *)

LEMMA ChangesAre ==
  /\ \A r \in Retags : Tag(r) \in Changes
  /\ \A until \in 0..LastTime : SnoozeUntil(until) \in Changes
  /\ \A kind \in {"wake", "mute", "unmute", "answer"} : Simple(kind) \in Changes
  <1>1. \A r \in Retags : r.add \in SUBSET Tags /\ r.remove \in SUBSET Tags
    BY InboxAssumption
  <1> QED BY <1>1 DEF Changes, Tag, SnoozeUntil, Simple

LEMMA WalksBegin ==
  ASSUME NEW o, NEW change \in Changes, NEW left \in Seq(Messages)
  PROVE  Work(o, change, left) \in Walks /\ Work(o, change, left).at = "each"
  BY DEF Work, Walks

LEMMA AsideFits ==
  ASSUME InboxTypeOK, NEW f \in FilterRecords
  PROVE  Aside(f) \in Asides
  <1>1. (~f.include_snoozed /\ ~f.snoozed /\ any_snoozed(now)) \in BOOLEAN
    OBVIOUS
  <1>2. muted \in Mutes /\ [b \in Mailboxes |-> {}] \in Mutes
    BY DEF InboxTypeOK, Mutes
  <1>3. blocked \in SUBSET Entries /\ answered \in SUBSET Messages /\ now \in 0..LastTime
    BY DEF InboxTypeOK
  <1> QED BY <1>1, <1>2, <1>3 DEF Aside, Asides, blocked_senders, answered_messages, muted_identities

LEMMA SavedFilters ==
  ASSUME InboxTypeOK, NEW v \in ViewNames, views[v] # NoView
  PROVE  /\ views[v] \in ViewRecords /\ views[v].filters \in FilterRecords
         /\ Unrefused(views[v].filters)
         /\ [views[v].filters EXCEPT !.include_snoozed = TRUE] \in FilterRecords
         /\ [views[v].filters EXCEPT !.include_muted = TRUE] \in FilterRecords
  <1>1. views[v] \in ViewRecords
    BY DEF InboxTypeOK
  <1>2. views[v].filters \in FilterRecords
    BY <1>1 DEF ViewRecords
  <1>3. \A f \in FilterRecords : /\ [f EXCEPT !.include_snoozed = TRUE] \in FilterRecords
                                /\ [f EXCEPT !.include_muted = TRUE] \in FilterRecords
    BY DEF FilterRecords
  <1> QED BY <1>1, <1>2, <1>3 DEF InboxTypeOK, Unrefused

LEMMA ThreadType ==
  ASSUME NEW m \in Stored
  PROVE  m \in Thread(m) /\ Thread(m) \subseteq Kin(m) /\ Thread(m) \subseteq Messages
  <1>1. Thread(m) = ConversationOf(m)
    BY ThreadIs
  <1>2. m \in Kin(m) /\ \A C \in Closed(m) : m \in C
    BY DEF Kin, Closed
  <1> QED BY <1>1, <1>2 DEF ConversationOf, Kin, Stored

\* A request that only sets down what is to be done.
Begins(o) ==
  /\ UNCHANGED <<mail, marks, settings, mutes, now, churn>>
  /\ \E j \in Jobs : Continue(o, j) /\ JobFits(j)

LEMMA WalkFits ==
  ASSUME NEW w \in Walks, w.at = "each" \/ w.left # <<>>
  PROVE  w \in Jobs /\ JobFits(w)
  <1>1. w \in Jobs
    BY DEF Jobs
  <1> QED BY <1>1, WalkIs DEF JobFits

LEMMA MessageBegins ==
  ASSUME InboxTypeOK, NEW o \in Operators, NEW change \in Changes, NEW m \in Messages
  PROVE  /\ OfMessage(o, change, m) => Begins(o)
         /\ \A S \in SUBSET Messages : OfThread(o, change, m, S) => Begins(o)
  <1>1. \A S \in SUBSET Messages : OldestFirst(S) \in Seq(Messages)
    BY OrderIs DEF InOrder
  <1>2. <<m>> \in Seq(Messages)
    OBVIOUS
  <1>3. \A s \in Seq(Messages) : Work(o, change, s) \in Jobs /\ JobFits(Work(o, change, s))
    BY WalksBegin, WalkFits
  <1> QED BY <1>1, <1>2, <1>3 DEF OfMessage, OfThread, Begins

LEMMA ViewBegins ==
  ASSUME InboxTypeOK, NEW o \in Operators, NEW change \in Changes, NEW v \in ViewNames, NEW f \in FilterRecords,
         OfView(o, change, v, f)
  PROVE  Begins(o)
  <1> DEFINE j == [at |-> "list", change |-> change, filters |-> f, aside |-> Aside(f), muted |-> muted]
  <1>1. j \in Listings
    <2>1. Aside(f) \in Asides /\ muted \in Mutes
      BY AsideFits DEF InboxTypeOK
    <2> QED BY <2>1 DEF Listings
  <1>2. j \in Jobs /\ JobFits(j)
    BY <1>1, JobsAre DEF JobFits
  <1> QED BY <1>2 DEF OfView, Begins

\* The writes a request makes at once.
Notes(o) ==
  /\ UNCHANGED <<mail, tags, snoozed, answered, settings, mutes, now, job, churn>>
  /\ \E m \in Stored, body \in SUBSET {asked'} : note' = [note EXCEPT ![m] = body]

LEMMA OnMessageIs ==
  ASSUME InboxTypeOK, NEW o \in Operators, NEW m \in Messages, OnMessage(o, m)
  PROVE  Ask(o) /\ (Begins(o) \/ Notes(o))
  <1> USE DEF OfMessage, OfThread
  <1>1. CASE \E r \in Retags : RetagMessage(o, r, m) \/ RetagThread(o, r, m)
    BY <1>1, ChangesAre, MessageBegins, ThreadType DEF RetagMessage, RetagThread
  <1>2. CASE \E until \in 1..LastTime : SnoozeMessage(o, until, m) \/ SnoozeThread(o, until, m)
    <2>1. \A until \in 1..LastTime : until \in 0..LastTime
      BY InboxAssumption
    <2> QED BY <1>2, <2>1, ChangesAre, MessageBegins, ThreadType DEF SnoozeMessage, SnoozeThread
  <1>3. CASE WakeMessage(o, m) \/ WakeThread(o, m)
    <2>1. m \in Stored => {x \in Thread(m) : IsSnoozed(x, now)} \in SUBSET Messages
      BY ThreadType
    <2> QED BY <1>3, <2>1, ChangesAre, MessageBegins DEF WakeMessage, WakeThread
  <1>4. CASE MuteConversation(o, m) \/ UnmuteConversation(o, m) \/ Reply(o, m)
    BY <1>4, ChangesAre, MessageBegins DEF MuteConversation, UnmuteConversation, Reply
  <1>5. CASE SetNote(o, m) \/ ClearNote(o, m)
    BY <1>5 DEF SetNote, ClearNote, Notes
  <1>6. CASE AppendNote(o, m)
    <2> DEFINE j == [at |-> "append", message |-> m, body |-> note[m] \cup {asked'}]
    <2>1. asked' \in 1..MaxAsked /\ note[m] \in SUBSET (1..MaxAsked)
      BY <1>6, InboxAssumption DEF AppendNote, Ask, InboxTypeOK
    <2>2. j \in Appends
      BY <2>1 DEF Appends
    <2>3. j \in Jobs /\ JobFits(j)
      BY <2>2, JobsAre DEF JobFits
    <2> QED BY <1>6, <2>3 DEF AppendNote, Begins
  <1> QED BY <1>1, <1>2, <1>3, <1>4, <1>5, <1>6 DEF OnMessage

RulesStand(rows) ==
  /\ rows \in [RuleIds -> {NoRule} \cup RuleRecords]
  /\ \A b \in Mailboxes, r \in RuleIds : Gone(b) /\ rows[r] # NoRule => rows[r].body.mailbox # b

ViewsStand(rows) ==
  /\ rows \in [ViewNames -> {NoView} \cup ViewRecords]
  /\ \A v \in ViewNames : rows[v] = NoView \/ Unrefused(rows[v].filters)

Settles(o) ==
  /\ UNCHANGED <<mail, marks, mutes, now, job, churn>>
  /\ RulesStand(rules') /\ ViewsStand(views') /\ blocked' \subseteq Entries

LEMMA SettingsAre ==
  ASSUME InboxTypeOK
  PROVE  RulesStand(rules) /\ ViewsStand(views) /\ blocked \subseteq Entries
  BY DEF InboxTypeOK, RulesStand, ViewsStand, Unrefused

LEMMA BodiesAre ==
  /\ \A b \in RuleBodies : b \in BodyRecords
  /\ \A b \in BodyRecords : Rule(b) \in RuleRecords /\ Rule(b).body = b
  /\ \A x \in RuleRecords : /\ x.body \in BodyRecords /\ x # NoRule
                            /\ \A b \in BodyRecords : [x EXCEPT !.body = b] \in RuleRecords /\ [x EXCEPT !.body = b].body = b
                            /\ \A p \in BOOLEAN : [x EXCEPT !.paused = p] \in RuleRecords /\ [x EXCEPT !.paused = p].body = x.body
  /\ \A f \in FilterRecords : View(f) \in ViewRecords /\ View(f).filters = f
  /\ \A x \in ViewRecords : x.filters \in FilterRecords /\ x # NoView
  <1>1. \A b \in RuleBodies : b \in BodyRecords
    BY InboxAssumption
  <1>2. \A b \in BodyRecords : Rule(b) \in RuleRecords /\ Rule(b).body = b
    BY DEF Rule, RuleRecords
  <1>3. \A x \in RuleRecords : x.body \in BodyRecords /\ x # NoRule
    BY DEF NoRule, RuleRecords
  <1>4. ASSUME NEW x \in RuleRecords
        PROVE  /\ \A b \in BodyRecords : [x EXCEPT !.body = b] \in RuleRecords /\ [x EXCEPT !.body = b].body = b
               /\ \A p \in BOOLEAN : [x EXCEPT !.paused = p] \in RuleRecords /\ [x EXCEPT !.paused = p].body = x.body
    BY DEF RuleRecords
  <1>5. \A f \in FilterRecords : View(f) \in ViewRecords /\ View(f).filters = f
    BY DEF View, ViewRecords
  <1>6. \A x \in ViewRecords : x.filters \in FilterRecords /\ x # NoView
    BY DEF NoView, ViewRecords
  <1> QED BY <1>1, <1>2, <1>3, <1>4, <1>5, <1>6

LEMMA RuleWrites ==
  ASSUME InboxTypeOK, NEW r \in RuleIds, NEW x \in {NoRule} \cup RuleRecords,
         x = NoRule \/ ~Gone(x.body.mailbox)
  PROVE  RulesStand([rules EXCEPT ![r] = x])
  BY SettingsAre DEF RulesStand

LEMMA ViewWrites ==
  ASSUME ViewsStand(views), NEW v \in ViewNames, NEW x \in {NoView} \cup ViewRecords,
         x = NoView \/ Unrefused(x.filters)
  PROVE  ViewsStand([views EXCEPT ![v] = x])
  BY DEF ViewsStand

LEMMA OnViewIs ==
  ASSUME InboxTypeOK, NEW o \in Operators, NEW v \in ViewNames, OnView(o, v)
  PROVE  Ask(o) /\ (Begins(o) \/ (UNCHANGED note /\ Settles(o)))
  <1> DEFINE Good == Ask(o) /\ (Begins(o) \/ (UNCHANGED note /\ Settles(o)))
  <1>1. ASSUME NEW change \in Changes, NEW f \in FilterRecords, OfView(o, change, v, f) PROVE Good
    BY <1>1, ViewBegins DEF OfView
  <1>2. ASSUME NEW change, NEW f, OfView(o, change, v, f) PROVE views[v] # NoView
    BY <1>2 DEF OfView
  <1> HIDE DEF Good
  <1>0. ASSUME views[v] # NoView
        PROVE  /\ views[v].filters \in FilterRecords
               /\ [views[v].filters EXCEPT !.include_snoozed = TRUE] \in FilterRecords
               /\ [views[v].filters EXCEPT !.include_muted = TRUE] \in FilterRecords
    BY <1>0, SavedFilters
  <1>3. ASSUME NEW r \in Retags, RetagView(o, r, v) PROVE Good
    <2>1. OfView(o, Tag(r), v, views[v].filters)
      BY <1>3 DEF RetagView
    <2> QED BY <1>0, <1>1, <1>2, <2>1, ChangesAre
  <1>4. ASSUME NEW until \in 1..LastTime, SnoozeView(o, until, v) PROVE Good
    <2>1. OfView(o, SnoozeUntil(until), v, views[v].filters)
      BY <1>4 DEF SnoozeView
    <2>2. until \in 0..LastTime
      BY InboxAssumption
    <2> QED BY <1>0, <1>1, <1>2, <2>1, <2>2, ChangesAre
  <1>5. ASSUME NEW kind \in {"mute", "unmute"}, MuteView(o, kind, v) PROVE Good
    <2>1. OfView(o, Simple(kind), v, [views[v].filters EXCEPT !.include_muted = TRUE])
      BY <1>5 DEF MuteView
    <2> QED BY <1>0, <1>1, <1>2, <2>1, ChangesAre
  <1>51. ASSUME WakeView(o, v) PROVE Good
    <2>1. OfView(o, Simple("wake"), v, [views[v].filters EXCEPT !.include_snoozed = TRUE])
      BY <1>51 DEF WakeView
    <2> QED BY <1>0, <1>1, <1>2, <2>1, ChangesAre
  <1>52. ASSUME ReplyView(o, v) PROVE Good
    <2>1. OfView(o, Simple("answer"), v, views[v].filters)
      BY <1>52 DEF ReplyView
    <2> QED BY <1>0, <1>1, <1>2, <2>1, ChangesAre
  <1>6. CASE \E f \in Filters : SaveView(o, v, f)
    <2>1. PICK f \in Filters : SaveView(o, v, f)
      BY <1>6
    <2>2. View(f) \in ViewRecords /\ View(f).filters = f /\ Unrefused(f)
      BY <2>1, BodiesAre, InboxAssumption DEF SaveView, Refused, Unrefused
    <2>3. ViewsStand(views')
      BY <2>1, <2>2, SettingsAre, ViewWrites DEF SaveView
    <2> QED BY <2>1, <2>3, SettingsAre DEF SaveView, Settles, Good, marks, mail, mutes
  <1>7. CASE \E w \in ViewNames : RenameView(o, v, w)
    <2>1. PICK w \in ViewNames : RenameView(o, v, w)
      BY <1>7
    <2>2. ViewsStand(views')
      <3>1. views[v] \in ViewRecords /\ Unrefused(views[v].filters)
        BY <2>1, SavedFilters DEF RenameView
      <3>2. views' = [views EXCEPT ![v] = NoView, ![w] = views[v]]
        BY <2>1 DEF RenameView
      <3> QED BY <3>1, <3>2, SettingsAre DEF ViewsStand
    <2> QED BY <2>1, <2>2, SettingsAre DEF RenameView, Settles, Good, marks, mail, mutes
  <1>8. CASE \E w \in ViewNames : CopyView(o, v, w)
    <2>1. PICK w \in ViewNames : CopyView(o, v, w)
      BY <1>8
    <2> DEFINE j == [at |-> "copyview", name |-> w, view |-> views[v]]
    <2>2. j \in ViewCopyings /\ Unrefused(j.view.filters)
      BY <2>1, SavedFilters DEF CopyView, ViewCopyings
    <2>3. j \in Jobs /\ JobFits(j)
      BY <2>2, JobsAre DEF JobFits
    <2> QED BY <2>1, <2>3 DEF CopyView, Begins, Good
  <1>9. CASE DeleteView(o, v)
    <2>1. ViewsStand(views')
      BY <1>9, SettingsAre, ViewWrites DEF DeleteView
    <2> QED BY <1>9, <2>1, SettingsAre DEF DeleteView, Settles, Good, marks, mail, mutes
  <1>10. Good => Ask(o) /\ (Begins(o) \/ (UNCHANGED note /\ Settles(o)))
    BY DEF Good
  <1> QED BY <1>3, <1>4, <1>5, <1>51, <1>52, <1>6, <1>7, <1>8, <1>9, <1>10 DEF OnView

LEMMA RuleAdded ==
  ASSUME InboxTypeOK, NEW o, NEW r \in RuleIds, NEW b \in RuleBodies, AddRule(o, r, b)
  PROVE  Ask(o) /\ UNCHANGED note /\ Settles(o)
  <1>1. Rule(b) \in RuleRecords /\ Rule(b).body = b /\ ~Gone(b.mailbox)
    BY BodiesAre DEF AddRule
  <1>2. RulesStand(rules')
    BY <1>1, RuleWrites DEF AddRule
  <1> QED BY <1>2, SettingsAre DEF AddRule, Settles, marks, mail, mutes

LEMMA OnRuleIs ==
  ASSUME InboxTypeOK, NEW o \in Operators, NEW r \in RuleIds, OnRule(o, r)
  PROVE  \/ \E only \in RuleIds : ApplyRules(o, only)
         \/ Ask(o) /\ UNCHANGED note /\ Settles(o)
  <1>1. ASSUME rules[r] # NoRule
        PROVE  rules[r] \in RuleRecords /\ rules[r].body \in BodyRecords /\ ~Gone(rules[r].body.mailbox)
    <2>1. rules[r] \in RuleRecords
      BY <1>1, SettingsAre DEF RulesStand
    <2>2. ~Gone(rules[r].body.mailbox)
      BY <1>1, SettingsAre DEF RulesStand, Gone
    <2> QED BY <2>1, <2>2, BodiesAre
  <1>2. CASE \E b \in RuleBodies : AddRule(o, r, b)
    BY <1>2, RuleAdded
  <1>3. CASE \E b \in RuleBodies, copy \in RuleIds : CopyRule(o, r, b, copy)
    BY <1>3, RuleAdded DEF CopyRule
  <1>4. CASE \E b \in RuleBodies : ReplaceRule(o, r, b)
    <2>1. PICK b \in RuleBodies : ReplaceRule(o, r, b)
      BY <1>4
    <2> DEFINE x == [rules[r] EXCEPT !.body = b]
    <2>2. rules' = [rules EXCEPT ![r] = x]
      BY <2>1 DEF ReplaceRule
    <2>3. x \in RuleRecords /\ x.body = b /\ ~Gone(b.mailbox)
      BY <1>1, <2>1, BodiesAre DEF ReplaceRule
    <2> HIDE DEF x
    <2>4. RulesStand(rules')
      BY <2>2, <2>3, RuleWrites
    <2> QED BY <2>1, <2>4, SettingsAre DEF ReplaceRule, Settles, marks, mail, mutes
  <1>5. CASE \E paused \in BOOLEAN : PauseRule(o, r, paused)
    <2>1. PICK paused \in BOOLEAN : PauseRule(o, r, paused)
      BY <1>5
    <2> DEFINE x == [rules[r] EXCEPT !.paused = paused]
    <2>2. rules' = [rules EXCEPT ![r] = x]
      BY <2>1 DEF PauseRule
    <2>3. x \in RuleRecords /\ ~Gone(x.body.mailbox)
      BY <1>1, <2>1, BodiesAre DEF PauseRule
    <2> HIDE DEF x
    <2>4. RulesStand(rules')
      BY <2>2, <2>3, RuleWrites
    <2> QED BY <2>1, <2>4, SettingsAre DEF PauseRule, Settles, marks, mail, mutes
  <1>6. CASE RemoveRule(o, r)
    <2>1. RulesStand(rules')
      BY <1>6, RuleWrites DEF RemoveRule
    <2> QED BY <1>6, <2>1, SettingsAre DEF RemoveRule, Settles, marks, mail, mutes
  <1>7. CASE ApplyRules(o, r)
    BY <1>7
  <1> QED BY <1>2, <1>3, <1>4, <1>5, <1>6, <1>7 DEF OnRule

LEMMA ApplyBegins ==
  ASSUME InboxTypeOK, NEW o \in Operators, NEW only, ApplyRules(o, only)
  PROVE  Ask(o) /\ Begins(o)
  <1> DEFINE R == {r \in RuleIds : rules[r] # NoRule /\ IF only = Unset THEN ~rules[r].paused ELSE r = only}
             j == [at |-> "match", bodies |-> {rules[r].body : r \in R}]
  <1>1. \A r \in R : rules[r].body \in BodyRecords
    BY SettingsAre, BodiesAre DEF RulesStand
  <1>2. j \in Matchings
    BY <1>1 DEF Matchings
  <1>3. j \in Jobs /\ JobFits(j)
    BY <1>2, JobsAre DEF JobFits
  <1>4. Continue(o, j)
    BY DEF ApplyRules
  <1> QED BY <1>3, <1>4 DEF ApplyRules, Begins

LEMMA BlocksAre ==
  ASSUME InboxTypeOK, NEW o, NEW e \in Entries, BlockSender(o, e) \/ UnblockSender(o, e)
  PROVE  Ask(o) /\ UNCHANGED note /\ Settles(o)
  <1>1. blocked' \subseteq Entries
    BY SettingsAre DEF BlockSender, UnblockSender
  <1>2. UNCHANGED <<rules, views>>
    BY DEF BlockSender, UnblockSender
  <1>3. RulesStand(rules') /\ ViewsStand(views')
    BY <1>2, SettingsAre
  <1> QED BY <1>1, <1>3 DEF BlockSender, UnblockSender, Settles, marks, mail, mutes

\* A request sets down what is to be done, or writes a note or a setting.
LEMMA RequestIs ==
  ASSUME InboxTypeOK, NEW o \in Operators, Requests(o)
  PROVE  Ask(o) /\ (Begins(o) \/ Notes(o) \/ (UNCHANGED note /\ Settles(o)))
  <1>1. CASE \E m \in Messages : OnMessage(o, m)
    BY <1>1, OnMessageIs
  <1>2. CASE \E v \in ViewNames : OnView(o, v)
    BY <1>2, OnViewIs
  <1>3. CASE \E r \in RuleIds : OnRule(o, r)
    BY <1>3, OnRuleIs, ApplyBegins
  <1>4. CASE ApplyRules(o, Unset)
    BY <1>4, ApplyBegins
  <1>5. CASE \E from, to \in Tags : AskRename(o, from, to)
    <2>1. PICK from \in Tags, to \in Tags : AskRename(o, from, to)
      BY <1>5
    <2> DEFINE j == [at |-> "copy", from |-> from, to |-> to]
    <2>2. j \in Copyings
      BY DEF Copyings
    <2>3. j \in Jobs /\ JobFits(j)
      BY <2>2, JobsAre DEF JobFits
    <2> QED BY <2>1, <2>3 DEF AskRename, Begins
  <1>6. CASE \E t \in Tags : AskRemoveTag(o, t)
    <2>1. PICK t \in Tags : AskRemoveTag(o, t)
      BY <1>6
    <2> DEFINE j == [at |-> "untag", tag |-> t]
    <2>2. j \in Untaggings
      BY DEF Untaggings
    <2>3. j \in Jobs /\ JobFits(j)
      BY <2>2, JobsAre DEF JobFits
    <2> QED BY <2>1, <2>3 DEF AskRemoveTag, Begins
  <1>7. CASE \E e \in Entries : BlockSender(o, e) \/ UnblockSender(o, e)
    BY <1>7, BlocksAre
  <1>8. CASE \E E \in SUBSET Entries : ImportBlocked(o, E)
    <2>1. PICK E \in SUBSET Entries : ImportBlocked(o, E)
      BY <1>8
    <2> DEFINE j == [at |-> "block", left |-> E \ blocked]
    <2>2. j \in Blockings
      BY DEF Blockings
    <2>3. j \in Jobs /\ JobFits(j)
      BY <2>2, JobsAre DEF JobFits
    <2> QED BY <2>1, <2>3 DEF ImportBlocked, Begins
  <1> QED BY <1>1, <1>2, <1>3, <1>4, <1>5, <1>6, <1>7, <1>8 DEF Requests

-----------------------------------------------------------------------------
(* Every step keeps the invariant. *)

MarksStand(t, s, n, a) ==
  /\ t \in [Messages -> SUBSET Tags] /\ s \in [Messages -> 0..LastTime]
  /\ n \in [Messages -> SUBSET (1..MaxAsked)] /\ a \subseteq Messages
  /\ \A m \in Messages \ Stored : t[m] = {} /\ s[m] = 0 /\ n[m] = {}

MutesStand(kept, gone) ==
  /\ kept \in Mutes /\ gone \in Mutes
  /\ \A b \in Mailboxes : gone[b] \subseteq kept[b] /\ (Gone(b) => kept[b] = {})

JobsStand(jobs) == jobs \in [Operators -> Jobs] /\ \A o \in Operators : JobFits(jobs[o])

Imports ==
  {NoImport} \cup [open : {TRUE}, message : Messages, rules : [RuleIds -> {NoRule} \cup RuleRecords],
                   bodies : SUBSET BodyRecords]

LEMMA PartsAre ==
  InboxIInv <=>
    /\ held \in [Messages -> {"coming", "stored", "deleted"}] /\ importing \in Imports /\ ImportFits
    /\ MarksStand(tags, snoozed, note, answered)
    /\ RulesStand(rules) /\ ViewsStand(views) /\ blocked \subseteq Entries
    /\ MutesStand(muted, silenced) /\ JobsStand(job)
    /\ now \in 0..LastTime /\ asked \in 0..MaxAsked
  BY DEF InboxIInv, InboxTypeOK, MarksStand, MutesStand, JobsStand, Imports, RulesStand, ViewsStand, Unrefused

\* A step that moves no message.
LEMMA HeldStays ==
  ASSUME InboxIInv, UNCHANGED mail, MarksStand(tags', snoozed', note', answered'),
         RulesStand(rules'), ViewsStand(views'), blocked' \subseteq Entries,
         MutesStand(muted', silenced'), JobsStand(job'), now' \in 0..LastTime, asked' \in 0..MaxAsked
  PROVE  InboxIInv'
  <1>1. held' = held /\ importing' = importing
    BY DEF mail
  <1>2. Stored' = Stored /\ \A b : Gone(b)' <=> Gone(b)
    BY <1>1 DEF Stored, Gone
  <1>3. held' \in [Messages -> {"coming", "stored", "deleted"}] /\ importing' \in Imports /\ ImportFits'
    BY <1>1, PartsAre DEF ImportFits
  <1>4. MarksStand(tags, snoozed, note, answered)'
    BY <1>2 DEF MarksStand
  <1>5. RulesStand(rules)'
    BY <1>2 DEF RulesStand
  <1>6. ViewsStand(views)'
    BY DEF ViewsStand
  <1>7. MutesStand(muted, silenced)'
    BY <1>2 DEF MutesStand
  <1>8. JobsStand(job)'
    BY <1>2 DEF JobsStand, JobFits
  <1>9. (/\ held \in [Messages -> {"coming", "stored", "deleted"}] /\ importing \in Imports /\ ImportFits
         /\ MarksStand(tags, snoozed, note, answered)
         /\ RulesStand(rules) /\ ViewsStand(views) /\ blocked \subseteq Entries
         /\ MutesStand(muted, silenced) /\ JobsStand(job)
         /\ now \in 0..LastTime /\ asked \in 0..MaxAsked)'
    BY <1>3, <1>4, <1>5, <1>6, <1>7, <1>8
  <1> QED BY <1>9, PartsAre, PTL

LEMMA JobGoesOn ==
  ASSUME JobsStand(job), NEW o \in Operators, NEW j \in Jobs, JobFits(j), Continue(o, j)
  PROVE  JobsStand(job')
  BY DEF JobsStand, Continue

LEMMA Finished ==
  ASSUME JobsStand(job), NEW o \in Operators, End(o)
  PROVE  JobsStand(job')
  <1>1. NoJob \in Jobs /\ JobFits(NoJob)
    BY JobsAre, KindsAre DEF JobFits
  <1> QED BY <1>1, JobGoesOn DEF End

LEMMA RequestStands ==
  ASSUME InboxIInv, NEW o \in Operators, Requests(o)
  PROVE  InboxIInv'
  <1>1. InboxTypeOK
    BY DEF InboxIInv
  <1>2. asked' \in 0..MaxAsked /\ asked' \in 1..MaxAsked
    <2>1. Ask(o)
      BY <1>1, RequestIs
    <2>2. asked \in 0..MaxAsked /\ MaxAsked \in Nat
      BY PartsAre, InboxAssumption
    <2> QED BY <2>1, <2>2 DEF Ask
  <1>3. CASE Begins(o)
    <2>1. UNCHANGED <<mail, marks, settings, mutes, now>>
      BY <1>3 DEF Begins
    <2>2. JobsStand(job')
      BY <1>3, PartsAre, JobGoesOn DEF Begins
    <2>3. UNCHANGED <<tags, snoozed, note, answered, rules, views, blocked, muted, silenced>>
      BY <2>1 DEF marks, settings, mutes
    <2> QED BY <1>2, <2>1, <2>2, <2>3, PartsAre, HeldStays
  <1>4. CASE Notes(o)
    <2>1. UNCHANGED <<mail, tags, snoozed, answered, settings, mutes, now, job>>
      BY <1>4 DEF Notes
    <2>2. PICK m \in Stored, body \in SUBSET {asked'} : note' = [note EXCEPT ![m] = body]
      BY <1>4 DEF Notes
    <2>3. MarksStand(tags', snoozed', note', answered')
      BY <1>2, <2>1, <2>2, PartsAre DEF MarksStand
    <2>4. UNCHANGED <<rules, views, blocked, muted, silenced>>
      BY <2>1 DEF settings, mutes
    <2> QED BY <1>2, <2>1, <2>3, <2>4, PartsAre, HeldStays
  <1>5. CASE UNCHANGED note /\ Settles(o)
    <2>1. UNCHANGED <<mail, tags, snoozed, note, answered, muted, silenced, now, job>>
      BY <1>5 DEF Settles, marks, mutes
    <2>2. RulesStand(rules') /\ ViewsStand(views') /\ blocked' \subseteq Entries
      BY <1>5 DEF Settles
    <2> QED BY <1>2, <2>1, <2>2, PartsAre, HeldStays
  <1> QED BY <1>1, <1>3, <1>4, <1>5, RequestIs

LEMMA ListingType ==
  ASSUME NEW f \in FilterRecords, NEW aside
  PROVE  ListMessages(f, aside, 0, 0) \in Seq(Messages)
  <1>1. PICK s : /\ InOrder(s, Listed(f, aside), f.oldest_first)
                 /\ \A limit, offset : ListMessages(f, aside, limit, offset) = Cut(s, limit, offset)
    BY ListIs
  <1> QED BY <1>1, CutIs DEF InOrder

\* A step of a request that changes nothing but the request.
LEMMA OnlyJob ==
  ASSUME InboxIInv, UNCHANGED <<mail, marks, settings, mutes, now, asked>>, JobsStand(job')
  PROVE  InboxIInv'
  BY PartsAre, HeldStays DEF marks, settings, mutes

LEMMA ListStands ==
  ASSUME InboxIInv, NEW o \in Operators, List(o)
  PROVE  InboxIInv'
  <1> DEFINE j == job[o]
             listed == ListMessages(j.filters, j.aside, 0, 0)
             waking == {m \in ToSet(listed) : IsSnoozed(m, j.aside.now)}
             left == IF j.change.kind # "wake" THEN listed ELSE InTurn(j.filters, waking)
             w == [at |-> "each", change |-> j.change, left |-> left, listed |-> TRUE,
                   muted |-> j.muted, handled |-> {}]
  <1>1. job[o] \in Jobs /\ job[o].at = "list"
    BY PartsAre DEF JobsStand, List
  <1>2. j.change \in Changes /\ j.filters \in FilterRecords /\ j.muted \in Mutes
    BY <1>1, JobIs DEF Listings
  <1>3. listed \in Seq(Messages)
    BY <1>2, ListingType
  <1>4. waking \in SUBSET Messages
    BY <1>3, LenProperties DEF ToSet
  <1>5. InTurn(j.filters, waking) \in Seq(Messages)
    BY <1>2, <1>4, TurnIs DEF InOrder
  <1>6. left \in Seq(Messages)
    BY <1>3, <1>5
  <1>7. Continue(o, w)
    BY DEF List
  <1> HIDE DEF j, listed, waking, left
  <1>8. w \in Walks /\ w.at = "each"
    BY <1>2, <1>6 DEF Walks
  <1> HIDE DEF w
  <1>9. JobsStand(job')
    BY <1>7, <1>8, WalkFits, JobGoesOn, PartsAre
  <1> QED BY <1>9, OnlyJob DEF List

\* A message's change, and the messages left.
LEMMA ChangeIs ==
  ASSUME InboxIInv, NEW o \in Operators, job[o].at = "each", job[o].left # <<>>
  PROVE  /\ job[o] \in Walks /\ Head(job[o].left) \in Messages /\ job[o].change \in Changes
         /\ Continue(o, [job[o] EXCEPT !.left = Tail(@)]) => JobsStand(job')
         /\ \A kind : Change(o, kind) => JobsStand(job')
  <1>1. job[o] \in Walks
    BY PartsAre, JobIs DEF JobsStand
  <1>2. Head(job[o].left) \in Messages /\ job[o].change \in Changes
    BY <1>1, WalkIs
  <1>3. [job[o] EXCEPT !.left = Tail(@)] \in Walks
    BY <1>1, WalkIs
  <1>6. [job[o] EXCEPT !.left = Tail(@)].at = "each"
    BY <1>1, WalkIs
  <1>4. Continue(o, [job[o] EXCEPT !.left = Tail(@)]) => JobsStand(job')
    BY <1>3, <1>6, PartsAre, WalkFits, JobGoesOn
  <1>5. End(o) => JobsStand(job')
    BY PartsAre, Finished
  <1> QED BY <1>1, <1>2, <1>4, <1>5 DEF Change

LEMMA ChangesStand ==
  ASSUME InboxIInv, NEW o \in Operators, Retag(o) \/ Snooze(o) \/ Wake(o) \/ Answer(o)
  PROVE  InboxIInv'
  <1>1. job[o].at = "each" /\ job[o].left # <<>>
    BY DEF Retag, Snooze, Wake, Answer, Change
  <1> DEFINE m == Head(job[o].left)
  <1>2. job[o] \in Walks /\ m \in Messages /\ job[o].change \in Changes
    BY <1>1, ChangeIs
  <1>3. JobsStand(job')
    BY <1>1, ChangeIs DEF Retag, Snooze, Wake, Answer
  <1>4. UNCHANGED <<mail, note, settings, mutes, now, asked>>
    BY DEF Retag, Snooze, Wake, Answer, Change
  <1> HIDE DEF m
  <1>5. ASSUME NEW t, MarksStand(t, snoozed, note, answered), tags' = t, UNCHANGED <<snoozed, answered>>
        PROVE  InboxIInv'
    BY <1>3, <1>4, <1>5, PartsAre, HeldStays DEF settings, mutes
  <1>6. ASSUME NEW s, MarksStand(tags, s, note, answered), snoozed' = s, UNCHANGED <<tags, answered>>
        PROVE  InboxIInv'
    BY <1>3, <1>4, <1>6, PartsAre, HeldStays DEF settings, mutes
  <1>7. CASE Retag(o)
    <2>1. job[o].change.kind = "tag"
      BY <1>7 DEF Retag, Change
    <2>2. job[o].change.add \in SUBSET Tags
      BY <1>2, <2>1 DEF Changes
    <2>3. MarksStand(OnStored(tags, m, (tags[m] \cup job[o].change.add) \ job[o].change.remove), snoozed, note, answered)
      BY <1>2, <2>2, PartsAre DEF MarksStand, OnStored
    <2> QED BY <1>5, <1>7, <2>3 DEF Retag, Change, m
  <1>8. CASE Snooze(o)
    <2>1. job[o].change.kind = "snooze"
      BY <1>8 DEF Snooze, Change
    <2>2. job[o].change.until \in 0..LastTime
      BY <1>2, <2>1 DEF Changes
    <2>3. MarksStand(tags, OnStored(snoozed, m, job[o].change.until), note, answered)
      BY <1>2, <2>2, PartsAre DEF MarksStand, OnStored
    <2> QED BY <1>6, <1>8, <2>3 DEF Snooze, Change, m
  <1>9. CASE Wake(o)
    <2>1. 0 \in 0..LastTime
      BY InboxAssumption
    <2>2. MarksStand(tags, OnStored(snoozed, m, 0), note, answered)
      BY <1>2, <2>1, PartsAre DEF MarksStand, OnStored
    <2> QED BY <1>6, <1>9, <2>2 DEF Wake, Change, m
  <1>10. CASE Answer(o)
    <2>1. UNCHANGED <<tags, snoozed, rules, views, blocked, muted, silenced>>
      BY <1>10 DEF Answer, settings, mutes
    <2>2. answered' \subseteq Messages
      BY <1>2, <1>10, PartsAre DEF Answer, m, MarksStand
    <2>3. MarksStand(tags, snoozed, note, answered')
      BY <2>2, PartsAre DEF MarksStand
    <2> QED BY <1>3, <1>4, <2>1, <2>3, PartsAre, HeldStays
  <1> QED BY <1>7, <1>8, <1>9, <1>10

LEMMA WalkStands ==
  ASSUME InboxIInv, NEW o \in Operators, Done(o) \/ NextConversation(o)
  PROVE  InboxIInv'
  <1>1. CASE Done(o)
    BY <1>1, PartsAre, Finished, OnlyJob DEF Done
  <1>2. CASE NextConversation(o)
    <2> DEFINE m == Head(job[o].left)
    <2>1. job[o].at = "each" /\ job[o].left # <<>> /\ job[o].listed
      BY <1>2 DEF NextConversation
    <2>2. job[o] \in Walks /\ m \in Messages
      BY <2>1, ChangeIs
    <2>3. CASE Continue(o, [job[o] EXCEPT !.left = Tail(@)])
      BY <1>2, <2>1, <2>3, ChangeIs, OnlyJob DEF NextConversation
    <2>4. CASE m \in Stored /\ Continue(o, [job[o] EXCEPT !.at = "conversation", !.handled = @ \cup Thread(m)])
      <3> DEFINE H == Thread(m)
      <3>1. H \in SUBSET Messages
        BY <2>4, ThreadType
      <3> HIDE DEF H
      <3>2. /\ [job[o] EXCEPT !.at = "conversation", !.handled = @ \cup H] \in Walks
            /\ [job[o] EXCEPT !.at = "conversation", !.handled = @ \cup H].left # <<>>
        BY <2>1, <2>2, <3>1, WalkIs
      <3>3. Continue(o, [job[o] EXCEPT !.at = "conversation", !.handled = @ \cup H])
        BY <2>4 DEF H
      <3>4. JobsStand(job')
        BY <3>2, <3>3, PartsAre, WalkFits, JobGoesOn
      <3> QED BY <1>2, <3>4, OnlyJob DEF NextConversation
    <2>5. CASE End(o)
      BY <1>2, <2>5, PartsAre, Finished, OnlyJob DEF NextConversation
    <2> HIDE DEF m
    <2> QED BY <1>2, <2>3, <2>4, <2>5 DEF NextConversation, m
  <1> QED BY <1>1, <1>2

\* A mute is of a conversation read whole.
LEMMA ConversationStands ==
  ASSUME InboxIInv, NEW o \in Operators, Conversation(o)
  PROVE  InboxIInv'
  <1> DEFINE m == Head(job[o].left)
             next == [job[o] EXCEPT !.at = "each", !.left = Tail(@)]
             j == [at |-> "mute", next |-> next, mailbox |-> MailboxOf[m],
                   identities |-> Identified(m),
                   conversation |-> UNION {IdentitiesOf[x] : x \in ConversationOf(m)}]
  <1>1. job[o] \in Walks
    BY PartsAre, JobIs DEF JobsStand, Conversation
  <1>2. PICK k \in Jobs : JobFits(k) /\ Continue(o, k)
    <2>1. job[o].left # <<>>
      BY PartsAre DEF Conversation, JobsStand, JobFits
    <2>2. next \in Walks /\ next.at = "each" /\ m \in Messages
      BY <1>1, <2>1, WalkIs
    <2>3. CASE m \in Stored /\ Identified(m) # {}
      <3>1. Continue(o, j)
        BY <2>3 DEF Conversation
      <3>2. Thread(m) = ConversationOf(m) /\ Thread(m) \subseteq Messages
        BY <2>3, ThreadIs, ThreadType
      <3>3. Identified(m) \in SUBSET Identities /\ MailboxOf[m] \in Mailboxes
        BY <2>2, <3>2 DEF Identified, Identities, Mailboxes
      <3>4. Identified(m) = UNION {IdentitiesOf[x] : x \in ConversationOf(m)}
        BY <3>2 DEF Identified
      <3> HIDE DEF next
      <3>5. j \in Mutings
        BY <2>2, <3>3, <3>4 DEF Mutings
      <3>6. JobFits(j)
        BY <2>2, <3>4 DEF JobFits
      <3> QED BY <3>1, <3>5, <3>6, JobsAre
    <2>4. CASE ~(m \in Stored /\ Identified(m) # {})
      <3>1. Continue(o, next)
        BY <2>4 DEF Conversation
      <3> HIDE DEF next
      <3> QED BY <2>2, <3>1, WalkFits
    <2> QED BY <2>3, <2>4
  <1>3. JobsStand(job')
    BY <1>2, PartsAre, JobGoesOn
  <1> QED BY <1>3, OnlyJob DEF Conversation

LEMMA MutesKept ==
  ASSUME InboxIInv, NEW o \in Operators, Mute(o) \/ Unmute(o)
  PROVE  InboxIInv'
  <1> DEFINE j == job[o]
             b == j.mailbox
  <1>1. j \in Mutings /\ JobFits(j) /\ j.at = "mute"
    BY PartsAre, JobIs DEF JobsStand, Mute, Unmute
  <1>2. /\ j.next \in Walks /\ j.next.at = "each"
        /\ b \in Mailboxes /\ j.conversation \subseteq j.identities /\ j.identities \subseteq Identities
    BY <1>1 DEF Mutings, JobFits
  <1>3. UNCHANGED <<mail, marks, settings, now, asked>>
    BY DEF Mute, Unmute
  <1> HIDE DEF j, b
  <1>4. Continue(o, j.next)
    BY DEF Mute, Unmute, j
  <1>5. ASSUME MutesStand(muted', silenced')
        PROVE  InboxIInv'
    <2>1. JobsStand(job')
      BY <1>2, <1>4, PartsAre, WalkFits, JobGoesOn
    <2> QED BY <1>3, <1>5, <2>1, PartsAre, HeldStays DEF marks, settings
  <1>8. CASE UNCHANGED mutes
    BY <1>5, <1>8, PartsAre DEF mutes
  <1>6. CASE Muting(o) /\ ~Gone(b)
    <2>1. /\ muted' = [muted EXCEPT ![b] = @ \cup j.identities]
          /\ silenced' = [silenced EXCEPT ![b] = @ \cup j.conversation]
      BY <1>6 DEF Muting, j, b
    <2>2. MutesStand(muted', silenced')
      BY <1>2, <1>6, <2>1, PartsAre DEF MutesStand, Mutes
    <2> QED BY <1>5, <2>2
  <1>7. CASE Unmute(o)
    <2>1. /\ muted' = [muted EXCEPT ![b] = @ \ j.identities]
          /\ silenced' = [silenced EXCEPT ![b] = @ \ j.identities]
      BY <1>7 DEF Unmute, j, b
    <2>2. MutesStand(muted', silenced')
      BY <1>2, <2>1, PartsAre DEF MutesStand, Mutes
    <2> QED BY <1>5, <2>2
  <1> QED BY <1>6, <1>7, <1>8 DEF Mute, j, b

LEMMA NotesKept ==
  ASSUME InboxIInv, NEW o \in Operators, WriteNote(o)
  PROVE  InboxIInv'
  <1> DEFINE m == job[o].message
             body == job[o].body
  <1>1. m \in Messages /\ body \in SUBSET (1..MaxAsked)
    BY PartsAre, JobIs DEF JobsStand, WriteNote, Appends
  <1>2. note' = IF m \in Stored THEN [note EXCEPT ![m] = body] ELSE note
    BY DEF WriteNote
  <1> HIDE DEF m, body
  <1>3. MarksStand(tags, snoozed, note', answered)
    BY <1>1, <1>2, PartsAre DEF MarksStand
  <1>4. JobsStand(job')
    BY PartsAre, Finished DEF WriteNote
  <1>5. UNCHANGED <<mail, tags, snoozed, answered, rules, views, blocked, muted, silenced, now, asked>>
    BY DEF WriteNote, settings, mutes
  <1> QED BY <1>3, <1>4, <1>5, PartsAre, HeldStays

LEMMA MatchesStand ==
  ASSUME InboxIInv, NEW o \in Operators, MatchStored(o)
  PROVE  InboxIInv'
  <1> DEFINE given == {p \in Stored \X job[o].bodies : Matches(p[2], p[1])}
             j == [at |-> "give", tagged |-> {<<p[1], p[2].tag>> : p \in given}]
  <1>1. job[o].bodies \in SUBSET BodyRecords
    BY PartsAre, JobIs DEF JobsStand, MatchStored, Matchings
  <1>2. \A p \in given : p[1] \in Messages /\ p[2].tag \in Tags
    BY <1>1 DEF Stored, BodyRecords
  <1>3. Continue(o, j)
    BY DEF MatchStored
  <1> HIDE DEF given
  <1>4. j \in Givings
    BY <1>2 DEF Givings
  <1>5. j \in Jobs /\ JobFits(j)
    BY <1>4, JobsAre DEF JobFits
  <1> HIDE DEF j
  <1>6. JobsStand(job')
    BY <1>3, <1>5, PartsAre, JobGoesOn
  <1> QED BY <1>6, OnlyJob DEF MatchStored

\* A step that writes tags and ends its request.
LEMMA TagsWritten ==
  ASSUME InboxIInv, NEW o \in Operators, End(o), MarksStand(tags', snoozed, note, answered),
         UNCHANGED <<mail, snoozed, note, answered, blocked, mutes, now, asked>>,
         RulesStand(rules'), ViewsStand(views')
  PROVE  InboxIInv'
  <1>1. JobsStand(job')
    BY PartsAre, Finished
  <1> QED BY <1>1, PartsAre, HeldStays DEF mutes

LEMMA TagsStand ==
  ASSUME InboxIInv, NEW o \in Operators, TagMessages(o) \/ RemoveTag(o)
  PROVE  InboxIInv'
  <1>1. UNCHANGED <<mail, snoozed, note, answered, rules, views, blocked, mutes, now, asked>> /\ End(o)
    BY DEF TagMessages, RemoveTag, settings
  <1>2. MarksStand(tags', snoozed, note, answered)
    <2>1. CASE TagMessages(o)
      <3> DEFINE tagged == job[o].tagged
      <3>1. tagged \in SUBSET (Messages \X Tags)
        BY <2>1, PartsAre, JobIs DEF JobsStand, TagMessages, Givings
      <3>2. tags' = IF \A p \in tagged : p[1] \in Stored
                    THEN [m \in Messages |-> tags[m] \cup {p[2] : p \in {q \in tagged : q[1] = m}}]
                    ELSE tags
        BY <2>1 DEF TagMessages
      <3> HIDE DEF tagged
      <3>3. CASE \A p \in tagged : p[1] \in Stored
        <4> DEFINE more(m) == {p[2] : p \in {q \in tagged : q[1] = m}}
        <4>1. \A m \in Messages : more(m) \subseteq Tags /\ (m \notin Stored => more(m) = {})
          BY <3>1, <3>3
        <4>2. tags' = [m \in Messages |-> tags[m] \cup more(m)]
          BY <3>2, <3>3
        <4> HIDE DEF more
        <4> QED BY <4>1, <4>2, PartsAre DEF MarksStand
      <3>4. CASE ~(\A p \in tagged : p[1] \in Stored)
        BY <3>2, <3>4, PartsAre
      <3> QED BY <3>3, <3>4
    <2>2. CASE RemoveTag(o)
      BY <2>2, PartsAre DEF MarksStand, RemoveTag
    <2> QED BY <2>1, <2>2
  <1> QED BY <1>1, <1>2, PartsAre, TagsWritten

LEMMA RenamesKept ==
  ASSUME InboxIInv, NEW o \in Operators, RenameTag(o)
  PROVE  InboxIInv'
  <1> DEFINE from == job[o].from
             to == job[o].to
             copied == job[o].copied
  <1>1. from \in Tags /\ to \in Tags /\ copied \subseteq Stored
    <2>1. job[o] \in Renamings /\ JobFits(job[o]) /\ job[o].at = "rename"
      BY PartsAre, JobIs DEF JobsStand, RenameTag
    <2> QED BY <2>1 DEF Renamings, JobFits
  <1>2. /\ tags' = [m \in Messages |-> (tags[m] \ {from}) \cup (IF m \in copied THEN {to} ELSE {})]
        /\ rules' = [r \in RuleIds |->
              IF rules[r] = NoRule THEN NoRule
              ELSE [rules[r] EXCEPT !.body.tag = Renamed(@, from, to)]]
        /\ views' = [v \in ViewNames |->
              IF views[v] = NoView THEN NoView
              ELSE [views[v] EXCEPT !.filters.tag = Renamed(@, from, to)]]
    BY DEF RenameTag
  <1> HIDE DEF from, to, copied
  <1>3. \A t \in Tags : Renamed(t, from, to) \in Tags
    BY <1>1 DEF Renamed
  <1>4. MarksStand(tags', snoozed, note, answered)
    BY <1>1, <1>2, PartsAre DEF MarksStand
  <1>5. RulesStand(rules')
    <2>1. ASSUME NEW x \in RuleRecords
          PROVE  LET y == [x EXCEPT !.body.tag = Renamed(@, from, to)]
                 IN y \in RuleRecords /\ y.body.mailbox = x.body.mailbox
      BY <1>3 DEF RuleRecords, BodyRecords
    <2>2. ASSUME NEW r \in RuleIds
          PROVE  /\ rules'[r] \in {NoRule} \cup RuleRecords
                 /\ rules'[r] # NoRule => rules[r] # NoRule /\ rules'[r].body.mailbox = rules[r].body.mailbox
      <3>1. rules[r] \in {NoRule} \cup RuleRecords
        BY PartsAre DEF RulesStand
      <3>2. CASE rules[r] = NoRule
        BY <1>2, <3>2
      <3>3. CASE rules[r] # NoRule
        <4>1. rules'[r] = [rules[r] EXCEPT !.body.tag = Renamed(@, from, to)]
          BY <1>2, <3>3
        <4> QED BY <2>1, <3>1, <3>3, <4>1
      <3> QED BY <3>2, <3>3
    <2>3. DOMAIN rules' = RuleIds /\ rules' = [r \in RuleIds |-> rules'[r]]
      BY <1>2
    <2> QED BY <2>2, <2>3, PartsAre DEF RulesStand
  <1>6. ViewsStand(views')
    <2>1. ASSUME NEW x \in ViewRecords
          PROVE  LET y == [x EXCEPT !.filters.tag = Renamed(@, from, to)]
                 IN y \in ViewRecords /\ (Unrefused(x.filters) => Unrefused(y.filters))
      <3>1. x.filters.tag \in Tags \cup {Unset} /\ x.filters \in FilterRecords
        BY DEF ViewRecords, FilterRecords
      <3>2. Renamed(x.filters.tag, from, to) \in Tags \cup {Unset}
        BY <1>3, <3>1, <1>1 DEF Renamed
      <3>3. x.filters.tag = Unset => Renamed(x.filters.tag, from, to) = Unset
        BY <1>1, InboxAssumption DEF Renamed
      <3> DEFINE tag == Renamed(x.filters.tag, from, to)
                 g == [x.filters EXCEPT !.tag = tag]
      <3>4. [x EXCEPT !.filters.tag = Renamed(@, from, to)] = [x EXCEPT !.filters = g]
        BY DEF ViewRecords
      <3> HIDE DEF tag
      <3>5. g \in FilterRecords /\ g.tag = tag /\ g.untagged = x.filters.untagged
        BY <3>1, <3>2 DEF FilterRecords, tag
      <3> HIDE DEF g
      <3>6. [x EXCEPT !.filters = g] \in ViewRecords /\ [x EXCEPT !.filters = g].filters = g
        BY <3>5 DEF ViewRecords
      <3> QED BY <3>3, <3>4, <3>5, <3>6 DEF Unrefused, tag
    <2>2. ASSUME NEW v \in ViewNames
          PROVE  views'[v] \in {NoView} \cup ViewRecords /\ (views'[v] = NoView \/ Unrefused(views'[v].filters))
      <3>1. views[v] \in {NoView} \cup ViewRecords /\ (views[v] = NoView \/ Unrefused(views[v].filters))
        BY PartsAre DEF ViewsStand
      <3>2. CASE views[v] = NoView
        BY <1>2, <3>2
      <3>3. CASE views[v] # NoView
        <4>1. views'[v] = [views[v] EXCEPT !.filters.tag = Renamed(@, from, to)]
          BY <1>2, <3>3
        <4> QED BY <2>1, <3>1, <3>3, <4>1
      <3> QED BY <3>2, <3>3
    <2>3. views' = [v \in ViewNames |-> views'[v]]
      BY <1>2
    <2> QED BY <2>2, <2>3 DEF ViewsStand
  <1> QED BY <1>4, <1>5, <1>6, PartsAre, TagsWritten DEF RenameTag

LEMMA CopiesStand ==
  ASSUME InboxIInv, NEW o \in Operators, CopyTag(o) \/ WriteCopy(o) \/ BlockNext(o)
  PROVE  InboxIInv'
  <1>1. CASE CopyTag(o)
    <2> DEFINE j == [at |-> "rename", from |-> job[o].from, to |-> job[o].to,
                     copied |-> {m \in Stored : job[o].from \in tags[m]}]
    <2>1. job[o].from \in Tags /\ job[o].to \in Tags
      BY <1>1, PartsAre, JobIs DEF JobsStand, CopyTag, Copyings
    <2>2. j \in Renamings /\ j.copied \subseteq Stored
      BY <2>1 DEF Renamings, Stored
    <2>3. j \in Jobs /\ JobFits(j)
      BY <2>2, JobsAre DEF JobFits
    <2>4. Continue(o, j)
      BY <1>1 DEF CopyTag
    <2> HIDE DEF j
    <2>5. JobsStand(job')
      BY <2>3, <2>4, PartsAre, JobGoesOn
    <2> QED BY <1>1, <2>5, OnlyJob DEF CopyTag
  <1>2. CASE WriteCopy(o)
    <2>1. job[o] \in ViewCopyings /\ JobFits(job[o]) /\ job[o].at = "copyview"
      BY <1>2, PartsAre, JobIs DEF JobsStand, WriteCopy
    <2>2. job[o].name \in ViewNames /\ job[o].view \in ViewRecords /\ Unrefused(job[o].view.filters)
      BY <2>1 DEF ViewCopyings, JobFits
    <2>3. ViewsStand(views')
      BY <1>2, <2>2, PartsAre, ViewWrites DEF WriteCopy
    <2>4. JobsStand(job')
      BY <1>2, PartsAre, Finished DEF WriteCopy
    <2> QED BY <1>2, <2>3, <2>4, PartsAre, HeldStays DEF WriteCopy, marks, mutes
  <1>3. CASE BlockNext(o)
    <2>1. job[o] \in Blockings
      BY <1>3, PartsAre, JobIs DEF JobsStand, BlockNext
    <2>2. blocked' \subseteq Entries
      BY <1>3, <2>1, PartsAre DEF BlockNext, Blockings
    <2>3. JobsStand(job')
      <3>1. CASE End(o)
        BY <3>1, PartsAre, Finished
      <3>2. ASSUME NEW e \in job[o].left, Continue(o, [job[o] EXCEPT !.left = @ \ {e}]) PROVE JobsStand(job')
        <4> DEFINE j == [job[o] EXCEPT !.left = @ \ {e}]
        <4>1. j \in Blockings
          BY <2>1 DEF Blockings
        <4>2. j \in Jobs /\ JobFits(j)
          BY <4>1, JobsAre, KindsAre DEF JobFits
        <4> HIDE DEF j
        <4>3. Continue(o, j)
          BY <3>2 DEF j
        <4> QED BY <4>2, <4>3, PartsAre, JobGoesOn
      <3> QED BY <1>3, <3>1, <3>2 DEF BlockNext
    <2> QED BY <1>3, <2>2, <2>3, PartsAre, HeldStays DEF BlockNext, marks, mutes
  <1> QED BY <1>1, <1>2, <1>3

LEMMA StepStands ==
  ASSUME InboxIInv, NEW o \in Operators, Steps(o)
  PROVE  InboxIInv'
  BY ListStands, ChangesStand, WalkStands, ConversationStands, MutesKept, NotesKept, MatchesStand,
     TagsStand, RenamesKept, CopiesStand DEF Steps

LEMMA ImportBegins ==
  ASSUME InboxIInv, NEW m \in Messages, StartImport(m)
  PROVE  InboxIInv'
  <1>1. /\ UNCHANGED <<held, marks, settings, mutes, now, job, asked>> /\ held[m] = "coming"
        /\ importing' = [open |-> TRUE, message |-> m, rules |-> rules,
                         bodies |-> {rules[r].body : r \in ForMailbox(MailboxOf[m])}]
    BY DEF StartImport
  <1>2. {rules[r].body : r \in ForMailbox(MailboxOf[m])} = Bodies(rules, MailboxOf[m])
    BY DEF ForMailbox, Bodies
  <1>3. Bodies(rules, MailboxOf[m]) \in SUBSET BodyRecords
    BY PartsAre, BodiesAre DEF RulesStand, Bodies
  <1>4. importing' \in Imports
    BY <1>1, <1>2, <1>3, PartsAre DEF Imports, RulesStand
  <1>5. ImportFits'
    BY <1>1, <1>2 DEF ImportFits
  <1>6. Stored' = Stored /\ \A b : Gone(b)' <=> Gone(b)
    BY <1>1 DEF Stored, Gone
  <1>7. UNCHANGED <<tags, snoozed, note, answered, rules, views, blocked, muted, silenced>>
    BY <1>1 DEF marks, settings, mutes
  <1>8. MarksStand(tags, snoozed, note, answered)' /\ MutesStand(muted, silenced)'
    BY <1>6, <1>7, PartsAre DEF MarksStand, MutesStand
  <1>9. RulesStand(rules)' /\ ViewsStand(views)'
    BY <1>6, <1>7, PartsAre DEF RulesStand, ViewsStand
  <1>10. JobsStand(job)'
    BY <1>1, <1>6, PartsAre DEF JobsStand, JobFits
  <1>11. (/\ held \in [Messages -> {"coming", "stored", "deleted"}] /\ importing \in Imports /\ ImportFits
          /\ MarksStand(tags, snoozed, note, answered)
          /\ RulesStand(rules) /\ ViewsStand(views) /\ blocked \subseteq Entries
          /\ MutesStand(muted, silenced) /\ JobsStand(job)
          /\ now \in 0..LastTime /\ asked \in 0..MaxAsked)'
    BY <1>1, <1>4, <1>5, <1>7, <1>8, <1>9, <1>10, PartsAre
  <1> QED BY <1>11, PartsAre, PTL

LEMMA ImportEnds ==
  ASSUME InboxIInv, FinishImport
  PROVE  InboxIInv'
  <1> DEFINE m == importing.message
  <1>1. /\ UNCHANGED <<snoozed, note, answered, settings, mutes, now, job, asked>> /\ importing' = NoImport
        /\ held' = [held EXCEPT ![m] = "stored"]
        /\ tags' = [tags EXCEPT ![m] = {b.tag : b \in {c \in importing.bodies : Matches(c, m)}}]
    BY DEF FinishImport
  <1>2. m \in Messages /\ importing.bodies \in SUBSET BodyRecords /\ held[m] = "coming"
    <2>1. importing.open /\ importing \in Imports /\ ImportFits
      BY PartsAre DEF FinishImport
    <2>2. importing # NoImport
      BY <2>1 DEF NoImport
    <2>3. importing \in [open : {TRUE}, message : Messages, rules : [RuleIds -> {NoRule} \cup RuleRecords],
                         bodies : SUBSET BodyRecords]
      BY <2>1, <2>2 DEF Imports
    <2> HIDE DEF m
    <2>4. importing.message \in Messages /\ importing.bodies \in SUBSET BodyRecords
      BY <2>3
    <2>5. held[importing.message] = "coming"
      BY <2>1 DEF ImportFits
    <2> QED BY <2>4, <2>5 DEF m
  <1>3. {b.tag : b \in {c \in importing.bodies : Matches(c, m)}} \in SUBSET Tags
    BY <1>2 DEF BodyRecords
  <1> HIDE DEF m
  <1>4. held' \in [Messages -> {"coming", "stored", "deleted"}]
    BY <1>1, <1>2, PartsAre
  <1>5. Stored' = Stored \cup {m} /\ \A b : Gone(b)' => Gone(b)
    BY <1>1, <1>2, PartsAre DEF Stored, Gone
  <1>6. importing' \in Imports /\ ImportFits'
    BY <1>1 DEF Imports, ImportFits, NoImport
  <1>7. UNCHANGED <<snoozed, note, answered, rules, views, blocked, muted, silenced>>
    BY <1>1 DEF settings, mutes
  <1>8. MarksStand(tags, snoozed, note, answered)'
    BY <1>1, <1>2, <1>3, <1>5, <1>7, PartsAre DEF MarksStand
  <1>9. MutesStand(muted, silenced)' /\ RulesStand(rules)' /\ ViewsStand(views)'
    BY <1>5, <1>7, PartsAre DEF MutesStand, RulesStand, ViewsStand
  <1>10. JobsStand(job)'
    BY <1>1, <1>5, PartsAre DEF JobsStand, JobFits
  <1>11. (/\ held \in [Messages -> {"coming", "stored", "deleted"}] /\ importing \in Imports /\ ImportFits
          /\ MarksStand(tags, snoozed, note, answered)
          /\ RulesStand(rules) /\ ViewsStand(views) /\ blocked \subseteq Entries
          /\ MutesStand(muted, silenced) /\ JobsStand(job)
          /\ now \in 0..LastTime /\ asked \in 0..MaxAsked)'
    BY <1>1, <1>4, <1>6, <1>7, <1>8, <1>9, <1>10, PartsAre
  <1> QED BY <1>11, PartsAre, PTL

LEMMA RemovalStands ==
  ASSUME InboxIInv, NEW b \in Mailboxes, RemoveMailbox(b)
  PROVE  InboxIInv'
  <1> DEFINE Kept(m) == MailboxOf[m] # b
  <1>1. /\ importing.open => Kept(importing.message)
        /\ \A o \in Operators : job[o].at = "rename" => \A m \in job[o].copied : Kept(m)
        /\ held' = [m \in Messages |-> IF Kept(m) THEN held[m] ELSE "deleted"]
        /\ tags' = [m \in Messages |-> IF Kept(m) THEN tags[m] ELSE {}]
        /\ snoozed' = [m \in Messages |-> IF Kept(m) THEN snoozed[m] ELSE 0]
        /\ note' = [m \in Messages |-> IF Kept(m) THEN note[m] ELSE {}]
        /\ answered' = {m \in answered : Kept(m)}
        /\ rules' = [r \in RuleIds |-> IF rules[r] # NoRule /\ rules[r].body.mailbox = b THEN NoRule ELSE rules[r]]
        /\ muted' = [muted EXCEPT ![b] = {}] /\ silenced' = [silenced EXCEPT ![b] = {}]
        /\ UNCHANGED <<importing, views, blocked, now, job, asked>>
    BY DEF RemoveMailbox
  <1>2. Stored' = {m \in Stored : Kept(m)} /\ \A c \in Mailboxes : Gone(c)' => c = b \/ Gone(c)
    BY <1>1 DEF Stored, Gone
  <1>3. held' \in [Messages -> {"coming", "stored", "deleted"}]
    BY <1>1, PartsAre
  <1>4. importing' \in Imports /\ ImportFits'
    <2>1. importing' = importing /\ importing \in Imports /\ ImportFits
      BY <1>1, PartsAre
    <2>2. ImportFits'
      <3>1. SUFFICES ASSUME importing.open PROVE ImportFits'
        BY <2>1 DEF ImportFits
      <3>2. importing.message \in Messages /\ Kept(importing.message)
        <4>1. importing # NoImport
          BY <3>1 DEF NoImport
        <4>2. importing \in [open : {TRUE}, message : Messages, rules : [RuleIds -> {NoRule} \cup RuleRecords],
                             bodies : SUBSET BodyRecords]
          BY <2>1, <4>1 DEF Imports
        <4>3. importing.message \in Messages
          BY <4>2
        <4> QED BY <1>1, <3>1, <4>3
      <3>3. held'[importing.message] = held[importing.message]
        BY <1>1, <3>2
      <3> QED BY <2>1, <3>1, <3>3 DEF ImportFits
    <2> QED BY <2>1, <2>2
  <1>5. MarksStand(tags, snoozed, note, answered)'
    <2>1. 0 \in 0..LastTime
      BY InboxAssumption
    <2>2. /\ tags' \in [Messages -> SUBSET Tags] /\ snoozed' \in [Messages -> 0..LastTime]
          /\ note' \in [Messages -> SUBSET (1..MaxAsked)] /\ answered' \subseteq Messages
      BY <1>1, <2>1, PartsAre DEF MarksStand
    <2>3. \A m \in Messages \ Stored' : tags'[m] = {} /\ snoozed'[m] = 0 /\ note'[m] = {}
      BY <1>1, <1>2, PartsAre DEF MarksStand
    <2> QED BY <2>2, <2>3 DEF MarksStand
  <1>6. RulesStand(rules)'
    <2>1. \A r \in RuleIds : rules'[r] = NoRule \/ (rules'[r] = rules[r] /\ rules[r].body.mailbox # b)
      BY <1>1
    <2>2. rules' \in [RuleIds -> {NoRule} \cup RuleRecords]
      BY <1>1, PartsAre DEF RulesStand
    <2> QED BY <1>2, <2>1, <2>2, PartsAre DEF RulesStand
  <1>7. MutesStand(muted, silenced)'
    BY <1>1, <1>2, PartsAre DEF MutesStand, Mutes
  <1>8. ViewsStand(views)'
    BY <1>1, PartsAre DEF ViewsStand
  <1>9. JobsStand(job)'
    BY <1>1, <1>2, PartsAre DEF JobsStand, JobFits
  <1>10. (/\ held \in [Messages -> {"coming", "stored", "deleted"}] /\ importing \in Imports /\ ImportFits
          /\ MarksStand(tags, snoozed, note, answered)
          /\ RulesStand(rules) /\ ViewsStand(views) /\ blocked \subseteq Entries
          /\ MutesStand(muted, silenced) /\ JobsStand(job)
          /\ now \in 0..LastTime /\ asked \in 0..MaxAsked)'
    BY <1>1, <1>3, <1>4, <1>5, <1>6, <1>7, <1>8, <1>9, PartsAre
  <1> QED BY <1>10, PartsAre, PTL

LEMMA TickStands ==
  ASSUME InboxIInv, Tick
  PROVE  InboxIInv'
  <1>1. now' \in 0..LastTime
    <2>1. now \in 0..LastTime /\ LastTime \in Nat
      BY PartsAre, InboxAssumption
    <2> QED BY <2>1 DEF Tick
  <1> QED BY <1>1, PartsAre, HeldStays DEF Tick, marks, settings, mutes

LEMMA InboxBegins == InboxInit => InboxIInv
  <1> SUFFICES ASSUME InboxInit PROVE InboxIInv
    OBVIOUS
  <1>1. held \in [Messages -> {"coming", "stored", "deleted"}] /\ importing \in Imports /\ ImportFits
    BY DEF InboxInit, Imports, ImportFits, NoImport
  <1>2. 0 \in 0..LastTime /\ 0 \in 0..MaxAsked
    BY InboxAssumption
  <1>3. MarksStand(tags, snoozed, note, answered)
    BY <1>2 DEF InboxInit, MarksStand
  <1>4. \A b \in Mailboxes : ~Gone(b)
    BY DEF InboxInit, Mailboxes, Gone
  <1>5. RulesStand(rules)
    BY <1>4, InboxAssumption DEF InboxInit, RulesStand
  <1>6. ViewsStand(views)
    BY InboxAssumption DEF InboxInit, ViewsStand, Unrefused, Refused
  <1>7. MutesStand(muted, silenced)
    BY DEF InboxInit, MutesStand, Mutes
  <1>8. JobsStand(job)
    <2>1. NoJob \in Jobs /\ JobFits(NoJob)
      BY JobsAre, KindsAre DEF JobFits
    <2> QED BY <2>1 DEF InboxInit, JobsStand
  <1> QED BY <1>1, <1>2, <1>3, <1>5, <1>6, <1>7, <1>8, PartsAre DEF InboxInit

LEMMA InboxStep == InboxIInv /\ [InboxNext]_inboxVars => InboxIInv'
  <1> SUFFICES ASSUME InboxIInv, [InboxNext]_inboxVars PROVE InboxIInv'
    OBVIOUS
  <1>1. CASE UNCHANGED inboxVars
    BY <1>1, PartsAre, HeldStays DEF inboxVars, mail
  <1>2. CASE InboxNext
    BY <1>2, RequestStands, StepStands, ImportBegins, ImportEnds, RemovalStands, TickStands DEF InboxNext
  <1> QED BY <1>1, <1>2

LEMMA InboxStands == InboxSpec => []InboxIInv
  BY InboxBegins, InboxStep, PTL DEF InboxSpec

\* Every row kept beside the stored messages, every saved view and rule, and
\* every request under way keeps its type; what is deleted with its mailbox
\* leaves no tag, snooze or note, no mute and no rule.
THEOREM InboxTypeCorrect == InboxSpec => []InboxTypeOK
  <1>1. InboxIInv => InboxTypeOK
    BY DEF InboxIInv
  <1> QED BY <1>1, InboxStands, PTL

\* What is muted stays out of listings until it is unmuted, mail imported later
\* included: a mute covers the conversation, whole, and what it covers is left
\* out by the listing that goes through the messages, the only one then allowed.
THEOREM MutedStays == InboxSpec => []MutedStaysOut
  <1>1. InboxIInv => MutedStaysOut
    <2> SUFFICES ASSUME InboxIInv, NEW m \in Stored, IdentitiesOf[m] \cap silenced[MailboxOf[m]] # {},
                        NEW f \in Filters, ~f.include_muted, ~f.muted
                 PROVE  m \notin ToSet(ListMessages(f, Aside(f), 0, 0))
      BY DEF MutedStaysOut
    <2>1. f \in FilterRecords /\ MailboxOf[m] \in Mailboxes
      BY InboxAssumption DEF Stored, Mailboxes
    <2>2. IdentitiesOf[m] \cap muted[MailboxOf[m]] # {}
      BY <2>1 DEF InboxIInv
    <2>3. Aside(f).muted[MailboxOf[m]] = muted[MailboxOf[m]]
      BY <2>1, AsideIs
    <2>4. ~Quiet(f, Aside(f))
      BY <2>1, <2>2, <2>3 DEF Quiet
    <2>5. ~Lists(f, Aside(f), m)
      <3>1. IsMuted(m, Aside(f).muted)
        BY <2>2, <2>3 DEF IsMuted
      <3>2. f.muted = FALSE
        BY <2>1 DEF FilterRecords
      <3> QED BY <3>1, <3>2 DEF Lists
    <2>6. PICK s : /\ InOrder(s, Listed(f, Aside(f)), f.oldest_first)
                   /\ \A limit, offset : ListMessages(f, Aside(f), limit, offset) = Cut(s, limit, offset)
      BY <2>1, ListIs
    <2>7. ToSet(ListMessages(f, Aside(f), 0, 0)) = Listed(f, Aside(f))
      BY <2>6, CutIs DEF InOrder
    <2> QED BY <2>4, <2>5, <2>7 DEF Listed
  <1> QED BY <1>1, InboxStands, PTL

\* Mail becomes visible with the tag of every rule that matches it and stood
\* while it was imported: the tags are written by the rules read at the start,
\* of the mailbox and of all, in the commit that shows it.
THEOREM RulesTag == InboxSpec => StandingRulesTag
  <1> DEFINE TagsThem ==
        \A m \in Messages : held[m] = "coming" /\ held'[m] = "stored" =>
          \A r \in RuleIds :
            /\ rules[r] = importing.rules[r]
            /\ rules[r] # NoRule /\ ~rules[r].paused
            /\ rules[r].body.mailbox \in {Unset, MailboxOf[m]}
            /\ rules[r].body.sender \in {Unset, SenderOf[m]}
            => rules[r].body.tag \in tags'[m]
  <1>1. InboxIInv /\ [InboxNext]_inboxVars => [TagsThem]_inboxVars
    <2> SUFFICES ASSUME InboxIInv, InboxNext,
                        NEW m \in Messages, held[m] = "coming", held'[m] = "stored",
                        NEW r \in RuleIds, rules[r] = importing.rules[r],
                        rules[r] # NoRule, ~rules[r].paused,
                        rules[r].body.mailbox \in {Unset, MailboxOf[m]},
                        rules[r].body.sender \in {Unset, SenderOf[m]}
                 PROVE  rules[r].body.tag \in tags'[m]
      OBVIOUS
    <2>1. FinishImport
      <3>1. ASSUME NEW o \in Operators, Requests(o) PROVE held' = held
        <4>1. InboxTypeOK
          BY DEF InboxIInv
        <4> QED BY <3>1, <4>1, RequestIs DEF Begins, Notes, Settles, mail
      <3>2. ASSUME NEW o \in Operators, Steps(o) PROVE held' = held
        BY <3>2 DEF Steps, List, Retag, Snooze, Wake, Answer, Done, NextConversation, Conversation, Mute, Unmute,
                    WriteNote, MatchStored, TagMessages, CopyTag, RenameTag, RemoveTag, WriteCopy, BlockNext,
                    Change, mail
      <3>3. ASSUME NEW x \in Messages, StartImport(x) PROVE held' = held
        BY <3>3 DEF StartImport
      <3>4. ASSUME NEW b \in Mailboxes, RemoveMailbox(b) PROVE held'[m] # "stored"
        BY <3>4 DEF RemoveMailbox
      <3>5. ASSUME Tick PROVE held' = held
        BY <3>5 DEF Tick, mail
      <3> QED BY <3>1, <3>2, <3>3, <3>4, <3>5 DEF InboxNext
    <2>2. m = importing.message
      BY <2>1, PartsAre DEF FinishImport
    <2>3. importing.open /\ importing.bodies = Bodies(importing.rules, MailboxOf[m])
      BY <2>1, <2>2, PartsAre DEF FinishImport, ImportFits
    <2>4. rules[r].body \in importing.bodies
      BY <2>3 DEF Bodies
    <2>5. Matches(rules[r].body, m)
      BY DEF Matches
    <2>6. tags' = [tags EXCEPT ![m] = {b.tag : b \in {c \in importing.bodies : Matches(c, m)}}]
      BY <2>1, <2>2 DEF FinishImport
    <2>7. tags'[m] = {b.tag : b \in {c \in importing.bodies : Matches(c, m)}}
      BY <2>6, PartsAre DEF MarksStand
    <2> QED BY <2>4, <2>5, <2>7
  <1> QED BY <1>1, InboxStands, PTL DEF InboxSpec, StandingRulesTag
=============================================================================
