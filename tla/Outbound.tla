------------------------------ MODULE Outbound ------------------------------
(***************************************************************************)
(* Originated mail: every step of AppState::originate, as several calls in *)
(* several processes interleave on one fleet database.  A call claims its  *)
(* row by the idempotency key, marks it `sending`, hands the mail to the   *)
(* SMTP server on a blocking thread and records how that ended.  Processes *)
(* crash and open the database again, callers disconnect, mailboxes are    *)
(* deleted, and database writes fail.                                      *)
(***************************************************************************)
EXTENDS FiniteSets

CONSTANTS
  Calls,       \* requests to send; a call's name is also the id of its row
  Processes,   \* the service and the commands that open the database
  Mailboxes, Orgs, OrgOf,   \* OrgOf[m] is the organization mailbox m is in
  Keys,        \* idempotency keys, unique over every organization
  Addresses,   \* recipients; everything else a row stores is abstracted to it
  Deletable,   \* the mailboxes an operator may delete
  Nobody       \* no call

ASSUME OutboundAssumption == /\ OrgOf \in [Mailboxes -> Orgs]
                             /\ Deletable \subseteq Mailboxes
                             /\ Nobody \notin Calls

VARIABLES
  req,         \* what each call asks for
  host,        \* the process each call runs in
  up,          \* the processes that have the database open
  mailboxes,   \* the mailboxes stored
  suppressed,  \* each organization's suppression list
  rows,        \* the outbound_messages row under each key
  pc,          \* where each call is
  verdict,     \* how the call's SMTP submission ended, as the code reads it
  got,         \* the row the call answered its caller with
  accepted,    \* history: the calls whose mail the SMTP server took
  listed       \* history: the calls whose recipient was suppressed all along

vars == <<req, host, up, mailboxes, suppressed, rows, pc, verdict, got, accepted, listed>>
asked == <<req, host>>

Requests == [mailbox : Mailboxes, key : Keys, to : Addresses]
Statuses == {"none", "pending", "sending", "sent", "failed", "uncertain"}
Verdicts == {"none", "sent", "failed", "uncertain"}
NoRow == [id |-> Nobody, status |-> "none"]

\* Before the claim, between the claim and the record, and at the SMTP server.
Unclaimed == {"idle", "lookup", "screen", "begin", "claim", "reread"}
Submitting == {"submitting", "detached"}
Claiming == {"claimed", "load", "credentials", "refused", "answered"} \cup Submitting
Places == Unclaimed \cup Claiming \cup {"over"}

Org(c) == OrgOf[req[c].mailbox]
Key(c) == req[c].key

TypeOK ==
  /\ req \in [Calls -> Requests]
  /\ host \in [Calls -> Processes]
  /\ up \subseteq Processes
  /\ mailboxes \subseteq Mailboxes
  /\ suppressed \in [Orgs -> SUBSET Addresses]
  /\ rows \in [Keys -> [id : Calls \cup {Nobody}, status : Statuses]]
  /\ pc \in [Calls -> Places]
  /\ verdict \in [Calls -> Verdicts]
  /\ got \in [Calls -> Calls \cup {Nobody}]
  /\ accepted \subseteq Calls
  /\ listed \subseteq Calls

Init ==
  /\ req \in [Calls -> Requests]
  /\ host \in [Calls -> Processes]
  /\ up = {}
  /\ mailboxes = Mailboxes
  /\ suppressed = [o \in Orgs |-> {}]
  /\ rows = [k \in Keys |-> NoRow]
  /\ pc = [c \in Calls |-> "idle"]
  /\ verdict = [c \in Calls |-> "none"]
  /\ got = [c \in Calls |-> Nobody]
  /\ accepted = {}
  /\ listed = {}

-----------------------------------------------------------------------------
(* The row a call sees under its key, and the row it owns. *)

\* get_outbound_by_key: the key's row, when its mailbox is of the caller's
\* organization.
Found(c) == /\ rows[Key(c)].id # Nobody
            /\ Org(rows[Key(c)].id) = Org(c)

\* The stored request is the one asked for now.
SameRequest(c, d) == req[c].mailbox = req[d].mailbox /\ req[c].to = req[d].to

Mine(c) == rows[Key(c)].id = c

Goto(c, place) == pc' = [pc EXCEPT ![c] = place]

\* UPDATE outbound_messages ... WHERE id: the row may be gone with its mailbox.
SetStatus(c, status) ==
  rows' = IF Mine(c) THEN [rows EXCEPT ![Key(c)].status = status] ELSE rows

-----------------------------------------------------------------------------
(* One call of originate, from validation to its answer. *)

Submit(c) ==
  /\ pc[c] = "idle"
  /\ host[c] \in up
  /\ Goto(c, "lookup")
  /\ listed' = IF req[c].to \in suppressed[Org(c)] THEN listed \cup {c} ELSE listed
  /\ UNCHANGED <<asked, up, mailboxes, suppressed, rows, verdict, got, accepted>>

\* Only a key not claimed yet is held to the suppression list.
Lookup(c) ==
  /\ pc[c] = "lookup"
  /\ Goto(c, IF Found(c) THEN "begin" ELSE "screen")
  /\ UNCHANGED <<asked, up, mailboxes, suppressed, rows, verdict, got, accepted, listed>>

Screened_SkipsList(c) == TRUE   \* mutant: the list is not read

Screened(c) == req[c].to \notin suppressed[Org(c)]

Screen(c) ==
  /\ pc[c] = "screen"
  /\ Screened(c)
  /\ Goto(c, "begin")
  /\ UNCHANGED <<asked, up, mailboxes, suppressed, rows, verdict, got, accepted, listed>>

\* Anything that stops a call before it claims: a suppressed or bounced
\* recipient, a file that cannot be sent, a mailbox not stored, a used-up send
\* limit, or a database error.
Refuse(c) ==
  /\ pc[c] \in Unclaimed \ {"idle"}
  /\ Goto(c, "over")
  /\ UNCHANGED <<asked, up, mailboxes, suppressed, rows, verdict, got, accepted, listed>>

\* begin_outbound up to its insert: read the mailbox, then the key.
Begin(c) ==
  /\ pc[c] = "begin"
  /\ req[c].mailbox \in mailboxes
  /\ \/ /\ ~Found(c)
        /\ Goto(c, "claim")
        /\ UNCHANGED got
     \/ /\ Found(c)
        /\ Goto(c, "over")
        /\ got' = IF SameRequest(c, rows[Key(c)].id)
                    THEN [got EXCEPT ![c] = rows[Key(c)].id] ELSE got
  /\ UNCHANGED <<asked, up, mailboxes, suppressed, rows, verdict, accepted, listed>>

\* The key is UNIQUE over every organization: an insert finds it free or fails.
KeyFree_NotUnique(c) == TRUE   \* mutant: the column is not UNIQUE

KeyFree(c) == rows[Key(c)].id = Nobody

\* The insert of claim_send.  The mailbox is a foreign key.  The commit, or the
\* read-back after it, may fail to reach the caller with the row in place.
Claim(c) ==
  /\ pc[c] = "claim"
  /\ KeyFree(c)
  /\ req[c].mailbox \in mailboxes
  /\ rows' = [rows EXCEPT ![Key(c)] = [id |-> c, status |-> "pending"]]
  /\ \E place \in {"claimed", "over"} : Goto(c, place)
  /\ UNCHANGED <<asked, up, mailboxes, suppressed, verdict, got, accepted, listed>>

\* A key taken since it was read: the row is read again and answered, whatever
\* it was claimed for.
ClaimTaken(c) ==
  /\ pc[c] = "claim"
  /\ ~KeyFree(c)
  /\ Goto(c, "reread")
  /\ UNCHANGED <<asked, up, mailboxes, suppressed, rows, verdict, got, accepted, listed>>

Reread(c) ==
  /\ pc[c] = "reread"
  /\ Goto(c, "over")
  /\ got' = IF Found(c) THEN [got EXCEPT ![c] = rows[Key(c)].id] ELSE got
  /\ UNCHANGED <<asked, up, mailboxes, suppressed, rows, verdict, accepted, listed>>

\* update_outbound(Sending): done; done but not read back; or not done.
MarkSending(c) ==
  /\ pc[c] = "claimed"
  /\ \/ /\ SetStatus(c, "sending")
        /\ Goto(c, IF Mine(c) THEN "load" ELSE "over")
     \/ /\ \/ SetStatus(c, "sending")
           \/ UNCHANGED rows
        /\ Goto(c, "over")
  /\ UNCHANGED <<asked, up, mailboxes, suppressed, verdict, got, accepted, listed>>

\* A mailbox or a credential that cannot be read ends the send `failed`.
Prepare(c, from, to, ready) ==
  /\ pc[c] = from
  /\ \/ ready /\ Goto(c, to) /\ UNCHANGED verdict
     \/ Goto(c, "refused") /\ verdict' = [verdict EXCEPT ![c] = "failed"]
  /\ UNCHANGED <<asked, up, mailboxes, suppressed, rows, got, accepted, listed>>

LoadMailbox(c) == Prepare(c, "load", "credentials", req[c].mailbox \in mailboxes)

ResolveCredentials(c) == Prepare(c, "credentials", "submitting", TRUE)

\* How `deliver` and `originate` read the end of a submission: accepted with an
\* answer, refused by a server answer, or no final answer (also a task that
\* stopped), when the server may have taken the mail or not.
Reads_LostIsFailed(v, took) == v = "sent" => took   \* mutant: lost is refused

Reads(v, took) == \/ v = "sent" /\ took
                  \/ v = "failed" /\ ~took
                  \/ v = "uncertain"

\* The blocking thread ends; a call whose caller left is not there to record it.
SmtpEnds(c) ==
  /\ pc[c] \in Submitting
  /\ \E v \in Verdicts \ {"none"}, took \in BOOLEAN :
       /\ Reads(v, took)
       /\ accepted' = IF took THEN accepted \cup {c} ELSE accepted
       /\ IF pc[c] = "submitting"
            THEN Goto(c, "answered") /\ verdict' = [verdict EXCEPT ![c] = v]
            ELSE Goto(c, "over") /\ UNCHANGED verdict
  /\ UNCHANGED <<asked, up, mailboxes, suppressed, rows, got, listed>>

\* The last update_outbound, or a database that refuses it.
Record(c) ==
  /\ pc[c] \in {"refused", "answered"}
  /\ \/ /\ SetStatus(c, verdict[c])
        /\ got' = IF Mine(c) /\ verdict[c] # "failed" THEN [got EXCEPT ![c] = c] ELSE got
     \/ UNCHANGED <<rows, got>>
  /\ Goto(c, "over")
  /\ UNCHANGED <<asked, up, mailboxes, suppressed, verdict, accepted, listed>>

\* The caller disconnects and the future is dropped where it waits; a
\* submission already on its blocking thread goes on.
Disconnect(c) ==
  /\ pc[c] \in {"credentials", "submitting", "answered"}
  /\ Goto(c, IF pc[c] = "submitting" THEN "detached" ELSE "over")
  /\ UNCHANGED <<asked, up, mailboxes, suppressed, rows, verdict, got, accepted, listed>>

-----------------------------------------------------------------------------
(* Processes and operators. *)

\* recover_interrupted_sends, of whichever process opens the database.
Interrupted_SettledToo(k) == rows[k].status \in {"sending", "sent"}   \* mutant

Interrupted(k) == rows[k].status = "sending"

RecoveredAs_Failed == "failed"   \* mutant: an interrupted send failed

RecoveredAs == "uncertain"

Open(p) ==
  /\ p \notin up
  /\ up' = up \cup {p}
  /\ rows' = [k \in Keys |-> IF Interrupted(k)
                              THEN [rows[k] EXCEPT !.status = RecoveredAs] ELSE rows[k]]
  /\ UNCHANGED <<asked, mailboxes, suppressed, pc, verdict, got, accepted, listed>>

\* A process ends, by itself or not, with its calls; of the submissions it had
\* running the server may have taken any.
Stop(p) ==
  /\ p \in up
  /\ up' = up \ {p}
  /\ pc' = [c \in Calls |-> IF host[c] = p /\ pc[c] # "idle" THEN "over" ELSE pc[c]]
  /\ \E took \in SUBSET {c \in Calls : host[c] = p /\ pc[c] \in Submitting} :
       accepted' = accepted \cup took
  /\ UNCHANGED <<asked, mailboxes, suppressed, rows, verdict, got, listed>>

\* The mailbox's outbound rows are deleted with it (ON DELETE CASCADE).
DeleteMailbox(m) ==
  /\ m \in mailboxes \cap Deletable
  /\ mailboxes' = mailboxes \ {m}
  /\ rows' = [k \in Keys |-> IF rows[k].id # Nobody /\ req[rows[k].id].mailbox = m
                              THEN NoRow ELSE rows[k]]
  /\ UNCHANGED <<asked, up, suppressed, pc, verdict, got, accepted, listed>>

Suppress(o, a) ==
  /\ a \notin suppressed[o]
  /\ suppressed' = [suppressed EXCEPT ![o] = @ \cup {a}]
  /\ UNCHANGED <<asked, up, mailboxes, rows, pc, verdict, got, accepted, listed>>

Unsuppress(o, a) ==
  /\ a \in suppressed[o]
  /\ suppressed' = [suppressed EXCEPT ![o] = @ \ {a}]
  /\ listed' = {c \in listed : ~(Org(c) = o /\ req[c].to = a)}
  /\ UNCHANGED <<asked, up, mailboxes, rows, pc, verdict, got, accepted>>

CallStep(c) ==
  \/ Submit(c) \/ Lookup(c) \/ Screen(c) \/ Refuse(c) \/ Begin(c)
  \/ Claim(c) \/ ClaimTaken(c) \/ Reread(c) \/ MarkSending(c)
  \/ LoadMailbox(c) \/ ResolveCredentials(c) \/ SmtpEnds(c) \/ Record(c)
  \/ Disconnect(c)

Next == \/ \E c \in Calls : CallStep(c)
        \/ \E p \in Processes : Open(p) \/ Stop(p)
        \/ \E m \in Mailboxes : DeleteMailbox(m)
        \/ \E o \in Orgs, a \in Addresses : Suppress(o, a) \/ Unsuppress(o, a)

Spec == Init /\ [][Next]_vars

-----------------------------------------------------------------------------
(* Properties. *)

\* The calls that claimed a row and may still hand mail over, or did.
Claimants == {c \in Calls : pc[c] \in Claiming} \cup accepted

\* Repeating a send never hands the provider a second copy: of two calls under
\* one key whose mail is or may yet be taken, each is of another mailbox, and
\* one of the two mailboxes is deleted (only then is a key free again).
AtMostOneCopy ==
  \A c, d \in Claimants :
    c # d /\ Key(c) = Key(d) =>
      /\ req[c].mailbox # req[d].mailbox
      /\ {req[c].mailbox, req[d].mailbox} \cap (Mailboxes \ mailboxes) # {}

\* A row's status is evidence about the provider: `sent` mail was taken, and
\* mail a row calls `pending` or `failed` (which --resend-failed sends again
\* under a new key) was not, and will not be unless the row is on its way.
StatusIsEvidence ==
  \A k \in Keys :
    LET c == rows[k].id
    IN  /\ rows[k].status = "sent" => c \in accepted
        /\ rows[k].status \in {"pending", "failed"} =>
             c \notin accepted /\ pc[c] \notin Submitting

\* A call whose recipient was on the suppression list from before the call was
\* made claims nothing, as long as no mailbox is deleted under it: a key found
\* claimed skips the list, and a deletion can free the key before the insert.
SuppressedNeverClaimed ==
  mailboxes = Mailboxes => listed \cap Claimants = {}

\* While its row exists, a send recorded `sent` or `failed` stays so, whoever
\* opens the database or ends late.
VerdictIsFinal ==
  [][\A k \in Keys :
       rows[k].status \in {"sent", "failed"} => rows'[k] \in {rows[k], NoRow}]_vars

\* The slots of SendOnce are the mailboxes' keys; a deleted mailbox's slots are
\* erased, and a row left `pending` or `sending` is open.
Slots == Mailboxes \X Keys

SlotState ==
  [s \in Slots |->
     LET row == rows[s[2]]
     IN  CASE s[1] \notin mailboxes -> "erased"
           [] s[1] \in mailboxes /\ (row.id = Nobody \/ req[row.id].mailbox # s[1]) -> "free"
           [] OTHER -> CASE row.status \in {"pending", "sending"} -> "open"
                         [] row.status = "uncertain" -> "unknown"
                         [] OTHER -> row.status]

SlotCopies ==
  [s \in Slots |-> {c \in accepted : req[c].mailbox = s[1] /\ Key(c) = s[2]}]

Promise == INSTANCE SendOnce
             WITH Attempts <- Calls, state <- SlotState, copies <- SlotCopies

\* Every step of the calls, processes and operators is a step of SendOnce or
\* none.
KeepsPromise == Promise!Spec

-----------------------------------------------------------------------------
(* What the code does not keep. *)

\* recover_interrupted_sends is said to settle what a stopped process left: a
\* row is `uncertain` only when its call is over or has lost the SMTP answer.
UncertainMeansEvidenceLost ==
  \A k \in Keys : rows[k].status = "uncertain" =>
    pc[rows[k].id] \in {"over", "detached"} \/ verdict[rows[k].id] = "uncertain"

\* "The same key with different files ... is a different request": a call is
\* answered only with a row that stores what it asked for.
AnswersOwnRequest ==
  \A c \in Calls : got[c] # Nobody => SameRequest(c, got[c])
=============================================================================
