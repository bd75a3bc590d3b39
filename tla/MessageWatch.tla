---------------------------- MODULE MessageWatch ----------------------------
(***************************************************************************)
(* Watching stored mail.  An import's transaction numbers each message it  *)
(* stores under a lock held until it commits, so that numbers become       *)
(* visible in the order they were taken; a watch listens, reads where to   *)
(* start, and hands on what is stored after the last number it handed on,  *)
(* waiting for the next announcement when there is nothing.  A client that *)
(* is cut off resumes after the last number it got.  The names leave those *)
(* of Watching free, so that one module may speak of both.                 *)
(***************************************************************************)
EXTENDS Naturals, Sequences

CONSTANTS
  Messages,
  Inboxes,     \* the mailboxes messages are received in
  MailboxOf,   \* the mailbox each message is received in
  Imports,     \* transactions that store messages, one at a time each
  Clients,     \* watching commands and requests
  All,         \* a watch of every mailbox
  NoImport,
  MaxFaults    \* bound: how often an import rolls back or a watch is cut off

ASSUME MessageWatchAssumption ==
  /\ MailboxOf \in [Messages -> Inboxes] /\ All \notin Inboxes
  /\ NoImport \notin Imports /\ MaxFaults \in Nat

VARIABLES
  sequence,    \* the last number messages_stored_order gave out
  lock,        \* the import that holds the lock of the order
  taken,       \* the number each import's uncommitted row has; seen by nobody else
  order,       \* each committed message's stored_order; 0 before
  deleted,     \* the mailboxes deleted since, with their messages
  watch,       \* each client's watch; after is 0 for every message
  heard,       \* whether a watch's subscription has something to hear
  got,         \* the messages each client got, as it got them
  faults,
  owed         \* history: what was stored since each client's watch began

watchVars == <<sequence, lock, taken, order, deleted, watch, heard, got, faults, owed>>

NoWatch == [pc |-> "off", mailbox |-> All, after |-> 0, batch |-> {}]

removed == {m \in Messages : MailboxOf[m] \in deleted}
Unstored == {m \in Messages : order[m] = 0 /\ \A i \in Imports : taken[i][m] = 0}
StoredMessages == {m \in Messages : order[m] # 0} \ removed

Watches == [pc : {"off", "start", "read", "hand", "wait"}, mailbox : Inboxes \cup {All},
            after : Nat, batch : SUBSET Messages]

WatchTypeOK ==
  /\ sequence \in Nat
  /\ lock \in Imports \cup {NoImport}
  /\ taken \in [Imports -> [Messages -> 0 .. sequence]]
  /\ order \in [Messages -> 0 .. sequence]
  /\ \A m, n \in Messages : order[m] = order[n] /\ order[m] # 0 => m = n
  /\ deleted \subseteq Inboxes
  /\ \A i \in Imports, m \in removed : taken[i][m] = 0
  /\ watch \in [Clients -> Watches]
  /\ \A c \in Clients : watch[c].after <= sequence /\ (watch[c].pc = "hand" <=> watch[c].batch # {})
  /\ heard \in [Clients -> BOOLEAN] /\ faults \in 0 .. MaxFaults
  /\ got \in [Clients -> Seq(Messages)] /\ owed \in [Clients -> SUBSET Messages]

WatchInit ==
  /\ sequence = 0 /\ lock = NoImport
  /\ taken = [i \in Imports |-> [m \in Messages |-> 0]]
  /\ order = [m \in Messages |-> 0] /\ deleted = {}
  /\ watch = [c \in Clients |-> NoWatch]
  /\ heard = [c \in Clients |-> FALSE]
  /\ got = [c \in Clients |-> <<>>]
  /\ faults = 0
  /\ owed = [c \in Clients |-> {}]

Fault == faults < MaxFaults /\ faults' = faults + 1
Handed == <<watch, got>>
Storing == <<sequence, lock, taken, order, deleted>>

-----------------------------------------------------------------------------
(* Imports. *)

Rows(i) == {m \in Messages : taken[i][m] # 0}

Orderable_Always(i) == TRUE   \* mutant: the lock is not taken

\* pg_advisory_xact_lock: held by nobody else until the transaction ends.
Orderable(i) == lock \in {NoImport, i}

NextNumber_Same == IF sequence = 0 THEN 1 ELSE sequence   \* mutant: a number is given twice

\* nextval, which no rollback takes back.
NextNumber == sequence + 1

\* skrzynka_order_stored, before the row is written.
Insert(i, m) ==
  /\ m \in Unstored \ removed /\ Orderable(i)
  /\ lock' = i
  /\ sequence' = NextNumber
  /\ taken' = [taken EXCEPT ![i][m] = NextNumber]
  /\ UNCHANGED <<order, deleted, Handed, heard, faults, owed>>

Release(i) ==
  /\ lock' = IF lock = i THEN NoImport ELSE lock
  /\ taken' = [taken EXCEPT ![i] = [m \in Messages |-> 0]]

\* The rows become visible, and skrzynka_announce_received is heard.
Commit(i) ==
  /\ Rows(i) # {}
  /\ Release(i)
  /\ order' = [m \in Messages |-> IF m \in Rows(i) THEN taken[i][m] ELSE order[m]]
  /\ heard' = [c \in Clients |-> heard[c] \/ watch[c].pc # "off"]
  /\ owed' = [c \in Clients |-> owed[c] \cup Rows(i)]
  /\ UNCHANGED <<sequence, deleted, Handed, faults>>

Rollback(i) ==
  /\ Rows(i) # {} /\ Fault
  /\ Release(i)
  /\ UNCHANGED <<sequence, order, deleted, Handed, heard, owed>>

\* delete_mailbox, once no import holds a row of it.
DeleteMailbox(b) ==
  /\ b \notin deleted
  /\ \A i \in Imports : \A m \in Rows(i) : MailboxOf[m] # b
  /\ deleted' = deleted \cup {b}
  /\ UNCHANGED <<sequence, lock, taken, order, Handed, heard, faults, owed>>

-----------------------------------------------------------------------------
(* Watches. *)

Oldest(M) == {m \in M : \A n \in M : order[m] <= order[n]}
Newest(M) == {m \in M : \A n \in M : order[n] <= order[m]}

\* last_stored, over the whole organization; 0 when it holds none.
LastStored == IF StoredMessages = {} THEN 0 ELSE order[CHOOSE m \in Newest(StoredMessages) : TRUE]

\* stored_after, whose rows come in the order they were stored.
StoredAfter(mailbox, after) ==
  {m \in StoredMessages : mailbox \in {All, MailboxOf[m]} /\ order[m] > after}

LastGot(c) == got[c][Len(got[c])]

\* watch_messages: the mailbox is resolved and the announcement listened to.
Subscribe(c) ==
  /\ watch[c].pc = "off"
  /\ \E mailbox \in IF got[c] = <<>> THEN (Inboxes \ deleted) \cup {All} ELSE {watch[c].mailbox} \ deleted :
       watch' = [watch EXCEPT ![c].pc = "start", ![c].mailbox = mailbox]
  /\ heard' = [heard EXCEPT ![c] = FALSE]
  /\ UNCHANGED <<Storing, got, faults, owed>>

\* starting_point: after the last number the client got, else from what is stored now.
Start(c) ==
  /\ watch[c].pc = "start"
  /\ IF got[c] = <<>>
       THEN /\ watch' = [watch EXCEPT ![c].pc = "read", ![c].after = LastStored]
            /\ owed' = [owed EXCEPT ![c] = {}]
       ELSE /\ watch' = [watch EXCEPT ![c].pc = "read", ![c].after = order[LastGot(c)]]
            /\ UNCHANGED owed
  /\ UNCHANGED <<Storing, heard, got, faults>>

\* next: what is stored after the last number, or the next announcement.
Read(c) ==
  LET stored == StoredAfter(watch[c].mailbox, watch[c].after) IN
  /\ watch[c].pc = "read"
  /\ \/ stored = {} /\ watch' = [watch EXCEPT ![c].pc = "wait"]
     \/ \E m \in Newest(stored) :
          watch' = [watch EXCEPT ![c].pc = "hand", ![c].batch = stored, ![c].after = order[m]]
  /\ UNCHANGED <<Storing, heard, got, faults, owed>>

\* Each is read by itself, passed over when its mailbox was deleted, and handed on.
Hand(c) ==
  /\ watch[c].pc = "hand"
  /\ \E m \in Oldest(watch[c].batch) :
       /\ got' = [got EXCEPT ![c] = IF m \in removed THEN got[c] ELSE Append(got[c], m)]
       /\ watch' = [watch EXCEPT ![c].batch = watch[c].batch \ {m},
                                 ![c].pc = IF watch[c].batch = {m} THEN "read" ELSE "hand"]
  /\ UNCHANGED <<Storing, heard, faults, owed>>

\* hear_announcement.
HearReceived(c) ==
  /\ watch[c].pc = "wait" /\ heard[c]
  /\ heard' = [heard EXCEPT ![c] = FALSE]
  /\ watch' = [watch EXCEPT ![c].pc = "read"]
  /\ UNCHANGED <<Storing, got, faults, owed>>

\* The client leaves, a read fails or the subscription ends: the watch is over,
\* with what it read and did not hand on.
CutOff(c) ==
  /\ watch[c].pc # "off" /\ Fault
  /\ watch' = [watch EXCEPT ![c] = [NoWatch EXCEPT !.mailbox = watch[c].mailbox]]
  /\ heard' = [heard EXCEPT ![c] = FALSE]
  /\ UNCHANGED <<Storing, got, owed>>

WatchStep(c) == Subscribe(c) \/ Start(c) \/ Read(c) \/ Hand(c) \/ HearReceived(c) \/ CutOff(c)

ImportStep(i) == Commit(i) \/ Rollback(i) \/ \E m \in Messages : Insert(i, m)

WatchNext ==
  \/ \E i \in Imports : ImportStep(i)
  \/ \E b \in Inboxes : DeleteMailbox(b)
  \/ \E c \in Clients : WatchStep(c)

WatchSpec == WatchInit /\ [][WatchNext]_watchVars

-----------------------------------------------------------------------------
(* Properties. *)

Got(c) == {got[c][i] : i \in 1 .. Len(got[c])}

\* docs/inbound/watch.md: a watch misses nothing and repeats nothing.  A client
\* waiting with nothing to hear got every message of its mailbox stored since
\* its watch began and still stored, across every resumption; what it got, it
\* got once and in the order it was stored.
MissesAndRepeatsNothing ==
  \A c \in Clients :
    /\ watch[c].pc = "wait" /\ ~heard[c] =>
         \A m \in owed[c] \ removed : watch[c].mailbox \in {All, MailboxOf[m]} => m \in Got(c)
    /\ \A i, j \in 1 .. Len(got[c]) : i < j => order[got[c][i]] < order[got[c][j]]
=============================================================================
