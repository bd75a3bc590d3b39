---------------------------- MODULE MailboxImport ----------------------------
(***************************************************************************)
(* One Skarbiec item's mailbox: the passes that import its INBOX, one      *)
(* message and the cursor past it per commit, while declarations,          *)
(* reconciliations and removals of the mailbox run beside them.            *)
(*                                                                         *)
(* A worker is whatever runs one pass at a time.  Workers overlap freely:  *)
(* in other processes, and in the same one when a dropped request frees    *)
(* the operation lock while its blocking pass goes on.  The provider is    *)
(* an INBOX that numbers arriving mail upwards and never renumbers it.     *)
(***************************************************************************)
EXTENDS Integers

CONSTANTS
  Workers,      \* who imports, declares, reconciles or removes
  MaxUid,       \* bound on the mail that arrives: UIDs are 1..MaxUid
  Unreadable,   \* the UIDs whose message cannot be normalized
  MaxRows       \* bound on the mailbox rows created, one after another

ASSUME ImportAssumption == /\ MaxUid \in Nat
                           /\ MaxRows \in Nat
                           /\ Unreadable \subseteq 1 .. MaxUid

VARIABLES
  arrived,      \* the UIDs given out so far are 1..arrived
  inbox,        \* those INBOX holds now
  declared,     \* whether the item carries the mailbox tag in Skarbiec
  row,          \* the mailboxes row of the item
  failing,      \* whether the row records a failure (last_error_code)
  made,         \* how many rows were created; a row's id is its number
  stored,       \* the UIDs of the row's messages
  pc,           \* where each worker is
  task,         \* what it runs: a sync, a declaration or a reconciliation
  current,      \* the mailbox row as it last read it; no row: it is adopting
  todo,         \* the UIDs its search found, not fetched yet
  last,         \* last_uid: the cursor its pass has reached
  batch         \* the message fetched and not committed yet

vars == <<arrived, inbox, declared, row, failing, made, stored, pc, task, current, todo,
          last, batch>>
provider == <<arrived, inbox>>
pass == <<todo, last, batch>>

Uids == 1 .. MaxUid
Cursors == 0 .. MaxUid
MailboxRows == [id : 0 .. MaxRows, enabled : BOOLEAN, cursor : Cursors]
NoMailbox == [id |-> 0, enabled |-> FALSE, cursor |-> 0]
NewMailbox(uid) == [id |-> made + 1, enabled |-> TRUE, cursor |-> uid]

Passing == {"search", "fetch", "commit", "reread", "last"}
Places == Passing \cup {"idle", "declare", "enable", "failing", "reconcile", "list", "apply",
                         "delete"}
Tasks == {"none", "sync", "declare", "tagged", "untagged"}

TypeOK ==
  /\ arrived \in Cursors
  /\ inbox \subseteq 1 .. arrived
  /\ declared \in BOOLEAN
  /\ made \in 0 .. MaxRows
  /\ row \in MailboxRows /\ row.id <= made
  /\ failing \in BOOLEAN
  /\ stored \subseteq Uids
  /\ pc \in [Workers -> Places]
  /\ task \in [Workers -> Tasks]
  /\ current \in [Workers -> MailboxRows]
  /\ todo \in [Workers -> SUBSET Uids]
  /\ last \in [Workers -> Cursors]
  /\ batch \in [Workers -> SUBSET Uids]

Init ==
  /\ arrived = 0
  /\ inbox = {}
  /\ declared = FALSE
  /\ row = NoMailbox
  /\ failing = FALSE
  /\ made = 0
  /\ stored = {}
  /\ pc = [w \in Workers |-> "idle"]
  /\ task = [w \in Workers |-> "none"]
  /\ current = [w \in Workers |-> NoMailbox]
  /\ todo = [w \in Workers |-> {}]
  /\ last = [w \in Workers |-> 0]
  /\ batch = [w \in Workers |-> {}]

Goto(w, place) == pc' = [pc EXCEPT ![w] = place]
Read(w, mailbox) == current' = [current EXCEPT ![w] = mailbox]

\* A worker's call returns, and forgets what it held.
Return(w) ==
  /\ Goto(w, "idle")
  /\ task' = [task EXCEPT ![w] = "none"]
  /\ Read(w, NoMailbox)
  /\ todo' = [todo EXCEPT ![w] = {}]
  /\ last' = [last EXCEPT ![w] = 0]
  /\ batch' = [batch EXCEPT ![w] = {}]

-----------------------------------------------------------------------------
(* The calls that begin a pass. *)

\* sync_mailbox_internal reads the row once, enabled or not.
OpenMailbox(w) ==
  /\ pc[w] = "idle"
  /\ row.id # 0
  /\ task' = [task EXCEPT ![w] = "sync"]
  /\ Read(w, row)
  /\ Goto(w, "search")
  /\ UNCHANGED <<provider, declared, row, failing, made, stored, pass>>

\* declare_mailbox: the tag first, so the declaration outlives the process.
TagItem(w) ==
  /\ pc[w] = "idle"
  /\ declared' = TRUE
  /\ task' = [task EXCEPT ![w] = "declare"]
  /\ Goto(w, "declare")
  /\ UNCHANGED <<provider, row, failing, made, stored, current, pass>>

FindMailbox(w) ==
  /\ pc[w] = "declare"
  /\ Read(w, row)
  /\ Goto(w, IF row.id = 0 THEN "search" ELSE "enable")
  /\ UNCHANGED <<provider, declared, row, failing, made, stored, task, pass>>

EnableMailbox(w) ==
  /\ pc[w] = "enable"
  /\ row.id = current[w].id
  /\ row' = [row EXCEPT !.enabled = TRUE]
  /\ Read(w, row')
  /\ Goto(w, "search")
  /\ UNCHANGED <<provider, declared, failing, made, stored, task, pass>>

-----------------------------------------------------------------------------
(* One pass: fetch_messages over the cursor it was given, one commit a UID. *)

Search(w) ==
  /\ pc[w] = "search"
  /\ todo' = [todo EXCEPT ![w] = {u \in inbox : u > current[w].cursor}]
  /\ last' = [last EXCEPT ![w] = current[w].cursor]
  /\ Goto(w, IF todo'[w] = {} THEN "last" ELSE "fetch")
  /\ UNCHANGED <<provider, declared, row, failing, made, stored, task, current, batch>>

\* The order of the UIDs a search found (sort_unstable).
Earlier_AsFound(u, v) == u >= v   \* mutant: as the hash set gives them

Earlier(u, v) == u <= v

\* A UID that is gone, or cannot be read, commits no message.
Fetch(w) ==
  /\ pc[w] = "fetch"
  /\ \E u \in todo[w] :
       /\ \A v \in todo[w] : Earlier(u, v)
       /\ todo' = [todo EXCEPT ![w] = @ \ {u}]
       /\ last' = [last EXCEPT ![w] = u]
       /\ batch' = [batch EXCEPT ![w] = {u} \cap (inbox \ Unreadable)]
  /\ Goto(w, "commit")
  /\ UNCHANGED <<provider, declared, row, failing, made, stored, task, current>>

\* The cursor a commit leaves (UPDATE mailboxes SET last_uid).
Reached(uid) == uid

\* commit_mailbox_import of a mailbox being adopted: the item is free.
Adopts(w) ==
  /\ current[w].id = 0
  /\ row.id = 0
  /\ made < MaxRows
  /\ row' = NewMailbox(Reached(last[w]))
  /\ made' = made + 1
  /\ failing' = FALSE
  /\ stored' = batch[w]

\* ... and of a stored one: its cursor is where the pass last saw it, the
\* message is new or already stored as it is, and a recorded failure clears.
Adds(w) ==
  /\ current[w].id # 0
  /\ row.id = current[w].id
  /\ row.cursor = current[w].cursor
  /\ row' = [row EXCEPT !.cursor = Reached(last[w])]
  /\ failing' = FALSE
  /\ stored' = stored \cup batch[w]
  /\ UNCHANGED made

Commit(w) ==
  /\ pc[w] = "commit"
  /\ Adopts(w) \/ Adds(w)
  /\ Read(w, row')
  /\ batch' = [batch EXCEPT ![w] = {}]
  /\ Goto(w, "reread")
  /\ UNCHANGED <<provider, declared, task, todo, last>>

\* After its commit the pass reads the row again, and takes the cursor it finds
\* for its own.  A declaration that adopted or added anything ends here.
Reread(w) ==
  /\ pc[w] = "reread"
  /\ row.id = current[w].id
  /\ \/ /\ todo[w] # {} \/ task[w] = "sync"
        /\ Read(w, row)
        /\ Goto(w, IF todo[w] # {} THEN "fetch" ELSE "last")
        /\ UNCHANGED <<task, pass>>
     \/ /\ todo[w] = {} /\ task[w] = "declare"
        /\ Return(w)
  /\ UNCHANGED <<provider, declared, row, failing, made, stored>>

\* The commit of no message that ends a sync, and a declaration that found none.
CommitLast(w) ==
  /\ pc[w] = "last"
  /\ Adopts(w) \/ Adds(w)
  /\ Return(w)
  /\ UNCHANGED <<provider, declared>>

\* Anything that stops a pass part way: credentials, IMAP, the database, a row
\* that is gone or already there, a cursor that changed.  Only a sync records it.
Fail(w) ==
  /\ pc[w] \in Passing \cup {"declare", "enable"}
  /\ \/ /\ task[w] = "sync"
        /\ Goto(w, "failing")
        /\ UNCHANGED <<task, current, pass>>
     \/ /\ task[w] = "declare"
        /\ Return(w)
  /\ UNCHANGED <<provider, declared, row, failing, made, stored>>

\* record_sync_failure, of whatever row has the id by now.
FailRow(id) == failing' = (failing \/ row.id = id)

RecordFailure(w) ==
  /\ pc[w] = "failing"
  /\ FailRow(current[w].id)
  /\ Return(w)
  /\ UNCHANGED <<provider, declared, row, made, stored>>

\* The process dies, or a failure cannot be recorded.
Crash(w) ==
  /\ pc[w] # "idle"
  /\ Return(w)
  /\ UNCHANGED <<provider, declared, row, failing, made, stored>>

-----------------------------------------------------------------------------
(* Reconciliation with Skarbiec, and removal. *)

\* Asked for by itself, by a round of the watching service or by a removal.
Reconcile(w) ==
  /\ pc[w] \in {"idle", "reconcile"}
  /\ task' = [task EXCEPT ![w] = IF declared THEN "tagged" ELSE "untagged"]
  /\ Goto(w, "list")
  /\ UNCHANGED <<provider, declared, row, failing, made, stored, current, pass>>

ListMailboxes(w) ==
  /\ pc[w] = "list"
  /\ Read(w, row)
  /\ Goto(w, "apply")
  /\ UNCHANGED <<provider, declared, row, failing, made, stored, task, pass>>

\* A declared item's row is enabled, or its refusal recorded on it; an item
\* without a row gets one, if still free; a row whose item lost the tag stops.
Apply(w) ==
  /\ pc[w] = "apply"
  /\ LET seen == current[w]
         Set(enabled) == row' = IF row.id = seen.id THEN [row EXCEPT !.enabled = enabled] ELSE row
     IN  \/ /\ task[w] = "tagged" /\ seen.id # 0
            /\ \/ FailRow(seen.id) /\ UNCHANGED row
               \/ Set(TRUE) /\ UNCHANGED failing
            /\ UNCHANGED made
         \/ /\ task[w] = "tagged" /\ seen.id = 0
            /\ row.id = 0 /\ made < MaxRows
            /\ row' = NewMailbox(0)
            /\ failing' = FALSE
            /\ made' = made + 1
         \/ /\ task[w] = "untagged" /\ seen.enabled
            /\ Set(FALSE)
            /\ FailRow(seen.id) \/ UNCHANGED failing   \* that write may fail
            /\ UNCHANGED made
         \/ UNCHANGED <<row, failing, made>>   \* nothing to change, or the item is taken
  /\ Return(w)
  /\ UNCHANGED <<provider, declared, stored>>

\* undeclare_mailbox removes the tag of a mailbox stored, and reconciles.
UntagItem(w) ==
  /\ pc[w] = "idle"
  /\ row.id # 0
  /\ declared' = FALSE
  /\ Goto(w, "reconcile")
  /\ UNCHANGED <<provider, row, failing, made, stored, task, current, pass>>

\* delete_mailbox looks at a row, and deletes it if it was disabled then.
CheckDisabled(w) ==
  /\ pc[w] = "idle"
  /\ row.id # 0 /\ ~row.enabled
  /\ Read(w, row)
  /\ Goto(w, "delete")
  /\ UNCHANGED <<provider, declared, row, failing, made, stored, task, pass>>

DeleteMailbox(w) ==
  /\ pc[w] = "delete"
  /\ IF row.id = current[w].id
       THEN row' = NoMailbox /\ failing' = FALSE /\ stored' = {}
       ELSE UNCHANGED <<row, failing, stored>>
  /\ Return(w)
  /\ UNCHANGED <<provider, declared, made>>

-----------------------------------------------------------------------------
(* The provider. *)

Arrive ==
  /\ arrived < MaxUid
  /\ arrived' = arrived + 1
  /\ inbox' = inbox \cup {arrived'}
  /\ UNCHANGED <<declared, row, failing, made, stored, pc, task, current, pass>>

Expunge(u) ==
  /\ u \in inbox
  /\ inbox' = inbox \ {u}
  /\ UNCHANGED <<arrived, declared, row, failing, made, stored, pc, task, current, pass>>

PassStep(w) == OpenMailbox(w) \/ TagItem(w) \/ FindMailbox(w) \/ EnableMailbox(w)
               \/ Search(w) \/ Fetch(w) \/ Commit(w) \/ Reread(w) \/ CommitLast(w)
               \/ Fail(w) \/ RecordFailure(w) \/ Crash(w)

AdminStep(w) == \/ UntagItem(w) \/ Reconcile(w) \/ ListMailboxes(w) \/ Apply(w)
                \/ CheckDisabled(w) \/ DeleteMailbox(w)

Next == \/ \E w \in Workers : PassStep(w) \/ AdminStep(w)
        \/ Arrive
        \/ \E u \in Uids : Expunge(u)

Spec == Init /\ [][Next]_vars

-----------------------------------------------------------------------------
(* Properties. *)

\* Mail the provider holds and that can be read is never left behind the cursor
\* unread, wherever a pass stops, whoever overtakes it, and whatever row the
\* item's mailbox has by then.
NothingSkipped ==
  row.id # 0 => \A u \in inbox \ Unreadable : u <= row.cursor => u \in stored

\* What the code does not keep.  "Own the persisted cursor before comparing or
\* writing any message, so a stale pass cannot move it backwards."
CursorNeverMovesBack ==
  [][row.id # 0 /\ row'.id = row.id => row'.cursor >= row.cursor]_vars
=============================================================================
