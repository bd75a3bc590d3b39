--------------------------- MODULE MessageActions ---------------------------
(***************************************************************************)
(* What operators ask of stored messages at their provider: flags set and  *)
(* cleared, moves, deletions, for one message or for all a view or a       *)
(* conversation lists.  A worker is a command or a request; its IMAP       *)
(* session runs on a blocking thread that outlives a dropped request.      *)
(* INBOX changes under every session, and may be renumbered between them.  *)
(***************************************************************************)
EXTENDS Naturals, FiniteSets

CONSTANTS
  Messages,   \* stored messages of one mailbox; each names the UID it came from
  Workers,
  Flags,      \* system flags `message mark` sets
  Nobody

ASSUME ActionsAssumption == Nobody \notin Messages /\ "Deleted" \notin Flags

VARIABLES
  at,         \* INBOX: the message now under each UID, or Nobody
  flags,      \* INBOX: each message's flags, "Deleted" among them
  ask,        \* each worker's request
  todo,       \* its messages still to be taken
  pc, msg,    \* where its current message is
  verdict,    \* how that message's action ended, until it is recorded
  heard,      \* whether somebody still waits to record it
  row,        \* each worker's record of each message's action
  touched,    \* history: the messages each action changed
  refused,    \* history: the actions of which a command was taken for refused
  lost,       \* history: the actions of which a command's answer was lost
  shown       \* history: the actions whose effect INBOX showed afterwards

vars == <<at, flags, ask, todo, pc, msg, verdict, heard, row, touched, refused, lost, shown>>
provider == <<at, flags>>
history == <<touched, refused, lost, shown>>
request == <<ask, todo, msg>>

Marks == [kind : {"mark"}, flag : Flags, on : BOOLEAN]
NoAsk == [kind |-> "none"]
Moves == [kind : {"move", "moveto"}]   \* to a folder named, or to what one is for
Delete == [kind |-> "delete"]
Statuses == {"pending", "done", "failed", "uncertain"}
InSession == {"check", "store", "move", "expunge", "confirm"}
Places == InSession \cup {"idle", "folder", "next", "source", "open", "record"}
Actions == Workers \X Messages

TypeOK ==
  /\ at \in [Messages -> Messages \cup {Nobody}]
  /\ flags \in [Messages -> SUBSET (Flags \cup {"Deleted"})]
  /\ ask \in [Workers -> Marks \cup Moves \cup {Delete, NoAsk}]
  /\ todo \in [Workers -> SUBSET Messages]
  /\ pc \in [Workers -> Places]
  /\ msg \in [Workers -> Messages \cup {Nobody}]
  /\ verdict \in [Workers -> Statuses]
  /\ heard \in [Workers -> BOOLEAN]
  /\ row \in [Actions -> Statuses \cup {"none"}]
  /\ touched \in [Actions -> SUBSET Messages]
  /\ refused \subseteq Actions /\ lost \subseteq Actions /\ shown \subseteq Actions
  /\ \A w \in Workers : pc[w] \in InSession => row[<<w, msg[w]>>] = "pending" /\ ask[w] # NoAsk

Init ==
  /\ at = [m \in Messages |-> m]
  /\ flags \in [Messages -> SUBSET Flags]
  /\ ask = [w \in Workers |-> NoAsk]
  /\ todo = [w \in Workers |-> {}]
  /\ pc = [w \in Workers |-> "idle"]
  /\ msg = [w \in Workers |-> Nobody]
  /\ verdict = [w \in Workers |-> "pending"]
  /\ heard = [w \in Workers |-> TRUE]
  /\ row = [a \in Actions |-> "none"]
  /\ touched = [a \in Actions |-> {}]
  /\ refused = {} /\ lost = {} /\ shown = {}

-----------------------------------------------------------------------------

Goto(w, place) == pc' = [pc EXCEPT ![w] = place]
Action(w) == <<w, msg[w]>>

\* A message's action ended; its status is still to be recorded.
End(w, status) ==
  /\ verdict' = [verdict EXCEPT ![w] = status]
  /\ Goto(w, "record")

\* act_on_message, act_on_view and act_on_thread, each worker once: one message
\* or the listed ones, of which none is deleted together with others.
Ask(w, a, D) ==
  /\ ask[w] = NoAsk
  /\ D # {}
  /\ a = Delete => Cardinality(D) = 1
  /\ ask' = [ask EXCEPT ![w] = a]
  /\ todo' = [todo EXCEPT ![w] = D]
  /\ Goto(w, IF a.kind = "moveto" THEN "folder" ELSE "next")
  /\ UNCHANGED <<msg, verdict, heard, row, provider, history>>

\* special_folder, once for a mailbox: without a folder every message is refused.
Folder(w) ==
  /\ pc[w] = "folder"
  /\ \/ Goto(w, "next") /\ UNCHANGED todo
     \/ Goto(w, "idle") /\ todo' = [todo EXCEPT ![w] = {}]
  /\ UNCHANGED <<ask, msg, verdict, heard, row, provider, history>>

Claimed_Later(a) == row   \* mutant: the record is made when the action ends
Claimed(a) == [row EXCEPT ![a] = "pending"]

\* begin_message_action of the next message; one that cannot be claimed is
\* refused and the next one taken.
Claim(w) ==
  /\ pc[w] = "next"
  /\ \/ \E m \in todo[w] :
          /\ todo' = [todo EXCEPT ![w] = @ \ {m}]
          /\ \/ /\ msg' = [msg EXCEPT ![w] = m]
                /\ row' = Claimed(<<w, m>>)
                /\ Goto(w, "source")
             \/ UNCHANGED <<msg, row, pc>>
     \/ todo[w] = {} /\ Goto(w, "idle") /\ UNCHANGED <<todo, msg, row>>
  /\ UNCHANGED <<ask, verdict, heard, provider, history>>

\* The message, its mailbox and the credentials are read.
Source(w) ==
  /\ pc[w] = "source"
  /\ \/ Goto(w, "open") /\ UNCHANGED verdict
     \/ End(w, "failed")
  /\ UNCHANGED <<request, heard, row, provider, history>>

\* open_inbox: whatever fails before INBOX is selected has changed nothing.
Open(w) ==
  /\ pc[w] = "open"
  /\ \/ Goto(w, "check") /\ UNCHANGED verdict
     \/ End(w, "failed")
  /\ UNCHANGED <<request, heard, row, provider, history>>

Lost == "uncertain"

\* command_failed, of a command that was applied or not: a refusal, which any
\* answer that cannot be read is taken for, or a lost connection.
CommandFails(w) ==
  \/ End(w, "failed") /\ refused' = refused \cup {Action(w)} /\ UNCHANGED lost
  \/ End(w, Lost) /\ lost' = lost \cup {Action(w)} /\ UNCHANGED refused

\* is_stored_as: the message under the UID is the one stored.
Proven_Present(w) == at[msg[w]] # Nobody   \* mutant: any message under the UID
Proven(w) == at[msg[w]] = msg[w]

\* The provider's copy is read by its UID and compared; a capability the
\* action needs may be missing.
Check(w) ==
  /\ pc[w] = "check"
  /\ \/ /\ Proven(w)
        /\ Goto(w, IF ask[w].kind \in {"move", "moveto"} THEN "move" ELSE "store")
        /\ UNCHANGED <<verdict, refused, lost>>
     \/ End(w, "failed") /\ UNCHANGED <<refused, lost>>
     \/ CommandFails(w)
  /\ UNCHANGED <<request, heard, row, provider, touched, shown>>

\* A command reached the provider and applied to what was under the UID.
Touch(w) ==
  touched' = [touched EXCEPT ![Action(w)] = @ \cup ({at[msg[w]]} \ {Nobody})]

\* Its answer says it was taken, or the command fails.
Sent(w, next) ==
  \/ Goto(w, next) /\ UNCHANGED <<verdict, refused, lost>>
  \/ CommandFails(w)

Stored(w) ==
  IF ask[w].kind = "delete" THEN [on |-> TRUE, flag |-> "Deleted"]
                            ELSE [on |-> ask[w].on, flag |-> ask[w].flag]

\* UID STORE, of the flag asked for or of \Deleted.
Store(w) ==
  /\ pc[w] = "store"
  /\ \/ /\ IF at[msg[w]] = Nobody THEN UNCHANGED flags
           ELSE flags' = [flags EXCEPT ![at[msg[w]]] =
                  IF Stored(w).on THEN @ \cup {Stored(w).flag} ELSE @ \ {Stored(w).flag}]
        /\ Touch(w)
     \/ UNCHANGED <<flags, touched>>   \* taken or not, it was not applied
  /\ Sent(w, IF ask[w].kind = "delete" THEN "expunge" ELSE "confirm")
  /\ UNCHANGED <<at, request, heard, row, shown>>

\* UID MOVE: the message leaves INBOX.
Move(w) ==
  /\ pc[w] = "move"
  /\ \/ /\ at' = [at EXCEPT ![msg[w]] = Nobody]
        /\ Touch(w)
     \/ UNCHANGED <<at, touched>>
  /\ Sent(w, "confirm")
  /\ UNCHANGED <<flags, request, heard, row, shown>>

Expunged(w) == {u \in {msg[w]} : at[u] # Nobody /\ "Deleted" \in flags[at[u]]}

\* UID EXPUNGE of that one UID.
Expunge(w) ==
  /\ pc[w] = "expunge"
  /\ \/ /\ at' = [u \in Messages |-> IF u \in Expunged(w) THEN Nobody ELSE at[u]]
        /\ touched' = [touched EXCEPT ![Action(w)] = @ \cup {at[u] : u \in Expunged(w)}]
     \/ UNCHANGED <<at, touched>>
  /\ Sent(w, "confirm")
  /\ UNCHANGED <<flags, request, heard, row, shown>>

\* What the second read must show for the action to be done.
Effect(w) ==
  IF ask[w].kind = "mark"
    THEN at[msg[w]] # Nobody /\ (ask[w].flag \in flags[at[msg[w]]] <=> ask[w].on)
    ELSE at[msg[w]] = Nobody

Unconfirmed_Taken == "done"   \* mutant: an accepted command is taken for its effect
Unconfirmed == "failed"

\* The flags are read again, by UID.
Confirm(w) ==
  /\ pc[w] = "confirm"
  /\ \/ /\ End(w, IF Effect(w) THEN "done" ELSE Unconfirmed)
        /\ shown' = IF Effect(w) THEN shown \cup {Action(w)} ELSE shown
        /\ UNCHANGED <<refused, lost>>
     \/ CommandFails(w) /\ UNCHANGED shown
  /\ UNCHANGED <<request, heard, row, provider, touched>>

\* finish_message_action, when somebody is there to call it; the record stays
\* pending when the database does not take it.
Record(w) ==
  /\ pc[w] = "record"
  /\ \/ /\ heard[w]
        /\ row' = [row EXCEPT ![Action(w)] = verdict[w]]
        /\ Goto(w, "next")
     \/ /\ UNCHANGED row
        /\ Goto(w, IF heard[w] THEN "next" ELSE "idle")
  /\ UNCHANGED <<request, verdict, heard, provider, history>>

\* The blocking task panics.
TaskStops(w) ==
  /\ pc[w] \in InSession
  /\ End(w, "uncertain")
  /\ UNCHANGED <<request, heard, row, provider, history>>

\* The caller of a request is gone: what runs on the blocking thread goes on,
\* with nobody to record it and no message after it.
Disconnect(w) ==
  /\ pc[w] # "idle" /\ heard[w]
  /\ heard' = [heard EXCEPT ![w] = FALSE]
  /\ todo' = [todo EXCEPT ![w] = {}]
  /\ IF pc[w] \in InSession \cup {"open"} THEN UNCHANGED pc ELSE Goto(w, "idle")
  /\ UNCHANGED <<ask, msg, verdict, row, provider, history>>

\* The process stops.
Stop(w) ==
  /\ pc[w] # "idle"
  /\ Goto(w, "idle")
  /\ todo' = [todo EXCEPT ![w] = {}]
  /\ UNCHANGED <<ask, msg, verdict, heard, row, provider, history>>

-----------------------------------------------------------------------------
(* Other clients and the provider. *)

OtherStore(m, flag) ==
  /\ flags' = [flags EXCEPT ![m] = IF flag \in @ THEN @ \ {flag} ELSE @ \cup {flag}]
  /\ UNCHANGED <<at, request, pc, verdict, heard, row, history>>

OtherRemove(u) ==
  /\ at' = [at EXCEPT ![u] = Nobody]
  /\ UNCHANGED <<flags, request, pc, verdict, heard, row, history>>

\* A new UIDVALIDITY: no session sees UIDs change under it.
Renumber(u, v) ==
  /\ \A w \in Workers : pc[w] \notin InSession
  /\ at' = [at EXCEPT ![u] = at[v], ![v] = at[u]]
  /\ UNCHANGED <<flags, request, pc, verdict, heard, row, history>>

-----------------------------------------------------------------------------

WorkerStep(w) ==
  \/ \E a \in Marks \cup Moves \cup {Delete}, D \in SUBSET Messages : Ask(w, a, D)
  \/ Folder(w) \/ Claim(w) \/ Source(w) \/ Open(w) \/ Check(w) \/ Store(w) \/ Move(w)
  \/ Expunge(w) \/ Confirm(w) \/ Record(w) \/ TaskStops(w) \/ Disconnect(w) \/ Stop(w)

Next ==
  \/ \E w \in Workers : WorkerStep(w)
  \/ \E m \in Messages, flag \in Flags \cup {"Deleted"} : OtherStore(m, flag)
  \/ \E u \in Messages : OtherRemove(u)
  \/ \E u, v \in Messages : Renumber(u, v)

Spec == Init /\ [][Next]_vars

-----------------------------------------------------------------------------
(* Properties. *)

\* An action changes the message it was asked for and no other, although UIDs
\* are given out anew and other clients mark messages to be expunged.
TouchesOnlyItsMessage == \A w \in Workers, m \in Messages : touched[<<w, m>>] \subseteq {m}

\* The record of actions tells what happened at the provider, whoever changes
\* INBOX in between.  Done: its effect was read back from INBOX.  "A request
\* whose outcome is lost still leaves a row saying so": what changed is on
\* record, and an answer that was lost is never recorded as a refusal.
RecordIsTrue ==
  \A a \in Actions :
    /\ row[a] = "done" => a \in shown
    /\ touched[a] # {} => row[a] # "none"
    /\ a \in lost => row[a] \in {"pending", "uncertain"}

\* What the code does not keep.  "A refusal (`NO`, `BAD`) carries the server's
\* own words and changed nothing": the \Deleted of a refused expunge stays, and
\* an applied command whose answer cannot be read is recorded as refused.
RefusedChangedNothing ==
  \A a \in Actions : row[a] = "failed" /\ a \in refused => touched[a] = {}
=============================================================================
